---- MODULE Spec2Model ----
(***************************************************************************)
(* Model of the Loki batching sink of rk-logger (src/syncer_loki.go):      *)
(* writers hand entries to the background loop over the unbuffered         *)
(* logChannel; the loop batches them and calls send on a size threshold,   *)
(* on timer expiry and on shutdown; Interrupt closes quitChannel and waits *)
(* on the wait group.                                                      *)
(***************************************************************************)
EXTENDS Integers, Sequences, FiniteSets, TLC

\* ---------------------------------------------------------------- bounds
\* Total number of Write calls issued in one run.
MaxWrites == 3
\* The furthest that the wall clock advances.
MaxNow == 2
\* Largest maxBatchSize a run is configured with (WithLokiMaxBatchSize).
MaxBatch == 2
\* The configured maxBatchWaitMs, in milliseconds (WithLokiMaxBatchWaitMs).
MaxWait == 2
\* Number of Write calls in the shorter runs (fairness, payloads, labels).
MaxShortWrites == 2

\* Number of options handed to NewLokiSyncer.
MaxOpts == 3
\* Number of WithLokiLabel options in the runs that go on to AddLabel.
MaxLabelOpts == 1
\* Number of direct calls of send on a constructed sink.
MaxDirectSends == 1

\* ---------------------------------------------------------------- strings
\* A Go string is modelled as the sequence of its characters, each a
\* one-character string; all strings of the model are printable ASCII, so a
\* character, a byte and a rune coincide.
\* The printable ASCII characters in code order, from the space (code 32) on;
\* the grave accent (code 96) cannot be written in a string here and is
\* spelled out, so no string of the model contains it.
AsciiChars ==
  <<" ", "!", "\"", "#", "$", "%", "&", "'", "(", ")", "*", "+", ",", "-",
    ".", "/", "0", "1", "2", "3", "4", "5", "6", "7", "8", "9", ":", ";",
    "<", "=", ">", "?", "@", "A", "B", "C", "D", "E", "F", "G", "H", "I",
    "J", "K", "L", "M", "N", "O", "P", "Q", "R", "S", "T", "U", "V", "W",
    "X", "Y", "Z", "[", "\\", "]", "^", "_", "grave", "a", "b", "c", "d", "e",
    "f", "g", "h", "i", "j", "k", "l", "m", "n", "o", "p", "q", "r", "s",
    "t", "u", "v", "w", "x", "y", "z", "{", "|", "}", "~">>

\* The code of a character: what byte(c) and rune(c) are in Go.
Code(c) == 31 + CHOOSE i \in 1..Len(AsciiChars) : AsciiChars[i] = c

\* []byte(s)
Bytes(s) == [i \in 1..Len(s) |-> Code(s[i])]

\* The alphabet of base64.StdEncoding; the padding character is "=".
Base64Alphabet ==
  <<"A", "B", "C", "D", "E", "F", "G", "H", "I", "J", "K", "L", "M", "N",
    "O", "P", "Q", "R", "S", "T", "U", "V", "W", "X", "Y", "Z", "a", "b",
    "c", "d", "e", "f", "g", "h", "i", "j", "k", "l", "m", "n", "o", "p",
    "q", "r", "s", "t", "u", "v", "w", "x", "y", "z", "0", "1", "2", "3",
    "4", "5", "6", "7", "8", "9", "+", "/">>

Base64Char(n) == Base64Alphabet[n + 1]

RECURSIVE Base64(_)
\* base64.StdEncoding.EncodeToString(bs): three bytes give four characters,
\* a last group of one or two bytes is padded.
Base64(bs) ==
  IF Len(bs) = 0 THEN <<>>
  ELSE IF Len(bs) = 1 THEN
    <<Base64Char(bs[1] \div 4), Base64Char((bs[1] % 4) * 16), "=", "=">>
  ELSE IF Len(bs) = 2 THEN
    <<Base64Char(bs[1] \div 4),
      Base64Char((bs[1] % 4) * 16 + bs[2] \div 16),
      Base64Char((bs[2] % 16) * 4), "=">>
  ELSE
    <<Base64Char(bs[1] \div 4),
      Base64Char((bs[1] % 4) * 16 + bs[2] \div 16),
      Base64Char((bs[2] % 16) * 4 + bs[3] \div 64),
      Base64Char(bs[3] % 64)>> \o Base64(SubSeq(bs, 4, Len(bs)))

\* The scheme prefixes of initHttpClient.
Http == <<"h", "t", "t", "p", ":", "/", "/">>
Https == <<"h", "t", "t", "p", "s", ":", "/", "/">>
\* The defaults of NewLokiSyncer.
DefaultAddr ==
  <<"l", "o", "c", "a", "l", "h", "o", "s", "t", ":", "3", "1", "0", "0">>
DefaultPath ==
  <<"/", "l", "o", "k", "i", "/", "a", "p", "i", "/", "v", "1", "/", "p",
    "u", "s", "h">>
\* The reserved label of NewLokiSyncer.
RkLogger == <<"r", "k", "_", "l", "o", "g", "g", "e", "r">>
V1 == <<"v", "1">>
\* The literals of initBasicAuth and send.
Basic == <<"B", "a", "s", "i", "c", " ">>
Colon == <<":">>
ContentType ==
  <<"a", "p", "p", "l", "i", "c", "a", "t", "i", "o", "n", "/", "j", "s",
    "o", "n">>
\* The strings callers pass in.
UtAddr == <<"u", "t", "-", "a", "d", "d", "r">>
UtPath == <<"u", "t", "-", "p", "a", "t", "h">>
UtName == <<"u", "t", "-", "n", "a", "m", "e">>
UtPass == <<"u", "t", "-", "p", "a", "s", "s">>
UtKey == <<"u", "t", "-", "k", "e", "y">>
UtKeyValid == <<"u", "t", "_", "k", "e", "y">>
UtValue == <<"u", "t", "-", "v", "a", "l", "u", "e">>
App == <<"a", "p", "p">>
V2 == <<"v", "2">>
Ut == <<"u", "t">>

\* ------------------------------------------------------------- processes
Writers == {"w1", "w2"}
Loops == {"l1", "l2"}
Stoppers == {"s1", "s2"}
\* The byte slices handed to Write: empty, and "ut".
Payloads == {<<>>, <<"u", "t">>}
FullPayloads == {p \in Payloads : Len(p) > 0}
Outcomes == {"delivered", "rejected", "failure"}
LabelKeys == {App}
LabelValues == {V2}
NoEntry == [w |-> "none", seq |-> 0, ts |-> 0, line |-> <<>>]

VARIABLES
  maxBatchSize,    \* syncer.maxBatchSize
  maxBatchWaitMs,  \* syncer.maxBatchWaitMs, a time.Duration (in microseconds)
  addr,            \* syncer.addr
  path,            \* syncer.path
  username,        \* syncer.username
  password,        \* syncer.password
  tlsConfig,       \* syncer.tlsConfig: "nil" or a configuration
  basicAuthHeader, \* syncer.basicAuthHeader
  cpc,             \* position of NewLokiSyncer: applying options, or returned
  applied,         \* history: the options NewLokiSyncer was called with
  labels,          \* syncer.labels.m
  quitClosed,      \* quitChannel has been closed
  waitGroup,       \* syncer.waitGroup counter
  started,         \* number of Bootstrap calls
  lpc,             \* position of each background loop
  batch,           \* the loop's local batch
  batchSize,       \* the loop's local batchSize
  timerLeft,       \* ticks until waitChannel fires; 0 when not armed
  timerC,          \* waitChannel.C holds a value
  wpc,             \* position of each writer
  wentry,          \* the entry a writer is sending on logChannel
  issued,          \* number of Write calls issued
  ipc,             \* position of each Interrupt caller
  syncRet,         \* what the last Sync returned
  sentLog,         \* history: the batches passed to send, in order
  accepted,        \* history: the entries in the order the loop received them
  returned,        \* history: the Write calls that returned: entry and result
  inFlight,        \* history: number of send calls that have not returned
  senders,         \* history: every actor that has executed send
  lastOutcome,     \* outcome of the last completed send
  lastReq,         \* history: the request built by the last direct call of send
  pendingAtStop,   \* history: each loop's unflushed entries when Interrupt was called
  sentAtStop,      \* history: Len(sentLog) when Interrupt was called
  raced,           \* history: a Write was pending at, or issued after, Interrupt
  lastResp,        \* history: what the last direct call of send got and logged
  args,            \* the arguments of a call of a function of the package
  ret,             \* what that call returned
  resIs,           \* which map the value returned by labels.Copy() refers to
  res,             \* the map that Copy made
  ser,             \* newLokiStreamList taken step by step: entries, streams so far
  now,             \* what time.Now() returns
  buf              \* the byte slice each writer passes to Write, as it is now

vars == <<maxBatchSize, maxBatchWaitMs, addr, path, username, password,
          tlsConfig, basicAuthHeader, cpc, applied, labels, quitClosed,
          waitGroup, started, lpc, batch, batchSize, timerLeft, timerC, wpc,
          wentry, issued, ipc, syncRet, sentLog, accepted, returned, inFlight,
          senders, lastOutcome, lastReq, pendingAtStop, sentAtStop, raced,
          lastResp, args, ret, resIs, res, ser, now, buf>>

\* The fields that no method changes once NewLokiSyncer has returned.
cfgVars == <<maxBatchSize, maxBatchWaitMs, addr, path, username, password,
             tlsConfig, basicAuthHeader, cpc, applied>>
loopVars == <<lpc, batch, batchSize, timerLeft, timerC>>
writerVars == <<wpc, wentry, issued>>
stopVars == <<ipc, pendingAtStop, sentAtStop>>
histVars == <<sentLog, accepted, returned, inFlight, senders, lastOutcome,
              lastReq>>
\* The calls made beside the running sink: the functions of the package, the
\* label store used on its own, send called directly.
fnVars == <<args, ret>>
copyVars == <<resIs, res>>
auxVars == <<ser, now, buf>>
otherVars == <<fnVars, copyVars, lastResp, auxVars>>
\* Everything that only changes once the sink runs.
runVars == <<started, loopVars, writerVars, stopVars, syncRet, histVars, raced>>

\* ------------------------------------------------------------ construction
\* time.Millisecond. A time.Duration counts nanoseconds; the model counts
\* durations in microseconds, which keeps 3000 ms within the integers of the
\* checker and still has durations below a millisecond.
UsPerMs == 1000
\* The defaults of NewLokiSyncer.
DefaultMaxBatchSize == 1000
DefaultMaxBatchWaitMs == 3000 * UsPerMs

\* An option as the caller wrote it.
Opt(name, arg) == [name |-> name, arg |-> arg]
\* No call of a function of the package has been made.
NoCall == [fn |-> "none"]
\* No direct call of send has returned yet.
NoResponse == [err |-> FALSE, status |-> 0, logged |-> "none", body |-> "none"]
\* newLokiStreamList is not being taken step by step.
NoSer == [on |-> FALSE, entries |-> <<>>, streams |-> <<>>]
\* No request has been built yet.
NoRequest == [url |-> <<>>, headers |-> [h \in {} |-> <<>>], streams |-> <<>>]

\* What NewLokiSyncer returns when called with WithLokiMaxBatchSize(n) and
\* WithLokiMaxBatchWaitMs(MaxWait * time.Millisecond): options applied, then
\* the reserved label, the scheme, the auth header and Add(1).
NewLokiSyncer ==
  /\ maxBatchSize \in 1..MaxBatch
  /\ maxBatchWaitMs = MaxWait * UsPerMs
  /\ addr = Http \o DefaultAddr
  /\ path = DefaultPath
  /\ username = <<>>
  /\ password = <<>>
  /\ tlsConfig = "nil"
  /\ basicAuthHeader = <<>>
  /\ cpc = "built"
  /\ applied = <<Opt("WithLokiMaxBatchSize", maxBatchSize),
                 Opt("WithLokiMaxBatchWaitMs", maxBatchWaitMs)>>
  /\ labels = [k \in {RkLogger} |-> V1]
  /\ quitClosed = FALSE
  /\ waitGroup = 1

\* The state of a sink nobody has used yet.
Unused ==
  /\ started = 0
  /\ lpc = [l \in Loops |-> "none"]
  /\ batch = [l \in Loops |-> <<>>]
  /\ batchSize = [l \in Loops |-> 0]
  /\ timerLeft = [l \in Loops |-> 0]
  /\ timerC = [l \in Loops |-> FALSE]
  /\ wpc = [w \in Writers |-> "idle"]
  /\ wentry = [w \in Writers |-> NoEntry]
  /\ issued = 0
  /\ ipc = [s \in Stoppers |-> "idle"]
  /\ syncRet = "none"
  /\ sentLog = <<>>
  /\ accepted = <<>>
  /\ returned = {}
  /\ inFlight = 0
  /\ senders = {}
  /\ lastOutcome = "none"
  /\ pendingAtStop = [l \in Loops |-> <<>>]
  /\ sentAtStop = 0
  /\ raced = FALSE
  /\ lastReq = NoRequest
  /\ lastResp = NoResponse
  /\ ser = NoSer
  /\ now = 0
  /\ buf = [w \in Writers |-> <<>>]

\* No function of the package has been called, no copy of the labels taken.
NoCopy == resIs = "none" /\ res = [k \in {} |-> <<>>]
Idle == args = NoCall /\ ret = NoCall /\ NoCopy

Init == NewLokiSyncer /\ Unused /\ Idle

\* ------------------------------------------------------------------ timer
\* Duration.Milliseconds(): integer division, truncated towards zero.
Milliseconds(d) == IF d >= 0 THEN d \div UsPerMs ELSE -((-d) \div UsPerMs)

\* time.NewTimer(d) and Timer.Reset(d): armed for d; a value already in the
\* timer's channel stays there. The clock of the model ticks once a
\* millisecond, and the durations of a running sink are whole milliseconds.
TimerReset(l) == [timerLeft EXCEPT ![l] = Milliseconds(maxBatchWaitMs)]

\* One tick of wall-clock time: every armed timer counts down and, on
\* reaching zero, puts a value into its channel (capacity 1).
Tick ==
  /\ \E l \in Loops : timerLeft[l] > 0
  /\ timerLeft' = [l \in Loops |-> IF timerLeft[l] > 0 THEN timerLeft[l] - 1 ELSE 0]
  /\ timerC' = [l \in Loops |-> timerC[l] \/ timerLeft[l] = 1]
  /\ UNCHANGED <<otherVars, cfgVars, labels, quitClosed, waitGroup, started, lpc, batch,
                 batchSize, writerVars, stopVars, syncRet, histVars, raced>>

\* ------------------------------------------------------------------- loop
SendPcs == {"send_size", "send_timer", "send_final"}

\* Mutant: send is started without waiting for it (go syncer.send(batch)).
SendPcAsync(kind) == "select"

\* The loop's position while it executes syncer.send(batch): the call is
\* synchronous, the loop stays in it until send returns.
SendPc(kind) == kind

\* Mutant: the new entry is put in front of the batch.
AppendEntryFront(b, e) == <<e>> \o b

\* batch = append(batch, entry)
AppendEntry(b, e) == Append(b, e)

\* Mutant: the threshold is compared with > instead of >=.
SizeReachedLate(n) == n > maxBatchSize

\* batchSize >= syncer.maxBatchSize
SizeReached(n) == n >= maxBatchSize

\* Mutant: the batch is not replaced after a flush.
AfterFlushKeep(b) == b

\* batch = []*lokiValue{} after a send in the loop body
AfterFlush(b) == <<>>

\* Mutant: the deferred function never sends.
DeferSendsNever(l) == FALSE

\* if batchSize > 0 in the deferred function
DeferSends(l) == batchSize[l] > 0

\* Mutant: the deferred function forgets waitGroup.Done().
WgDoneMissing == waitGroup

\* syncer.waitGroup.Done()
WgDone == waitGroup - 1

\* Mutant: the timer case sends whatever the batch holds, an empty one too.
TimerSendsAlways(l) == TRUE

\* Mutant: the timer case never sends.
TimerSendsNever(l) == FALSE

\* if batchSize > 0 in the timer case
TimerSends(l) == batchSize[l] > 0

\* Mutant: batchSize is not set back after a flush.
SizeAfterFlushKeep(n) == n

\* batchSize = 0 after a send in the loop body
SizeAfterFlush(n) == 0

\* What a running loop holds that it has not passed to send.
Unflushed(l) == IF lpc[l] \in SendPcs \cup {"done"} THEN <<>> ELSE batch[l]

\* The labels of an entry built by Write: lokiValue.Labels is left nil.
NoLabels == [k \in {} |-> <<>>]

\* A lokiValue: Values holds the timestamp and the line, Labels the entry's
\* own labels.
LokiValue(ts, line, own) == [Values |-> <<ts, line>>, Labels |-> own]

\* Mutant: a label of the sink wins over the entry's label of the same key.
MergeLabelsSinkWins(m, own) ==
  [k \in DOMAIN m \cup DOMAIN own |-> IF k \in DOMAIN m THEN m[k] ELSE own[k]]

\* labels := syncer.labels.Copy(); for k, v := range val.Labels { labels[k] = v }
MergeLabels(m, own) ==
  [k \in DOMAIN m \cup DOMAIN own |-> IF k \in DOMAIN own THEN own[k] ELSE m[k]]

\* One pass of the loop of newLokiStreamList: the stream of entry val, with
\* the labels that the store holds when the pass runs.
Stream(val) ==
  [stream |-> MergeLabels(labels, val.Labels), values |-> <<val.Values>>]

\* newLokiStreamList(values): one stream per entry, in entry order, when no
\* label is added while it runs.
newLokiStreamList(values) == [i \in 1..Len(values) |-> Stream(values[i])]

\* len(syncer.basicAuthHeader) > 0
HasAuth == Len(basicAuthHeader) > 0

\* The header of the request that send builds.
Header ==
  IF HasAuth
    THEN [h \in {"Content-Type", "Authorization"} |->
            IF h = "Authorization" THEN basicAuthHeader ELSE ContentType]
    ELSE [h \in {"Content-Type"} |-> ContentType]

\* The first and the last place of character c in s, or 0: strings.Index and
\* strings.LastIndex, counted from 1.
IndexOf(s, c) ==
  IF \E i \in 1..Len(s) : s[i] = c
    THEN CHOOSE i \in 1..Len(s) : s[i] = c /\ \A j \in 1..(i - 1) : s[j] # c
    ELSE 0
LastIndexOf(s, c) ==
  IF \E i \in 1..Len(s) : s[i] = c
    THEN CHOOSE i \in 1..Len(s) : s[i] = c /\ \A j \in (i + 1)..Len(s) : s[j] # c
    ELSE 0

\* url.Parse: the authority of scheme://authority/path, what stands between
\* the two slashes after the scheme and the next slash. (The addresses and
\* paths of the model hold no "?", "#" or "@".)
Authority(url) ==
  LET c == IndexOf(url, ":")
      rest == SubSeq(url, c + 1, Len(url))
  IN IF c = 0 \/ Len(rest) < 2 \/ rest[1] # "/" \/ rest[2] # "/"
       THEN <<>>
       ELSE LET a == SubSeq(rest, 3, Len(rest))
                e == IndexOf(a, "/")
            IN IF e = 0 THEN a ELSE SubSeq(a, 1, e - 1)

\* The characters from code lo to code hi.
CharsBetween(lo, hi) == {AsciiChars[c - 31] : c \in Code(lo)..Code(hi)}
\* b >= '0' && b <= '9' in validOptionalPort
PortChars == CharsBetween("0", "9")
\* The characters that url.Parse leaves alone in a host name.
HostChars ==
  CharsBetween("a", "z") \cup CharsBetween("A", "Z") \cup PortChars \cup
  {"-", "_", ".", "~", "!", "$", "&", "'", "(", ")", "*", "+", ",", ";", "=",
   ":", "[", "]", "<", ">", "\""}

\* validOptionalPort of net/url: nothing, or a colon and digits only.
ValidOptionalPort(port) ==
  \/ port = <<>>
  \/ /\ port[1] = ":"
     /\ \A j \in 2..Len(port) : port[j] \in PortChars

\* http.NewRequest returns a request and no error: the URL parses, that is,
\* its host has only characters of a host name and, after its last colon,
\* a port. (Hosts in brackets and per cent escapes are not in the model.)
NewRequestOk(url) ==
  LET host == Authority(url)
      i == LastIndexOf(host, ":")
  IN /\ \A j \in 1..Len(host) : host[j] \in HostChars
     /\ i # 0 => ValidOptionalPort(SubSeq(host, i, Len(host)))

\* The addresses and paths that the sinks of the model are built with, and
\* those of them that give a URL that parses; they are worked out once.
Targets ==
  {scheme \o a : scheme \in {Http, Https},
                 a \in {DefaultAddr, UtAddr, Http \o UtAddr}} \X
  {DefaultPath, UtPath}
ParsedTargets == {t \in Targets : NewRequestOk(t[1] \o t[2])}

\* The target of a sink built with no options, and whether it parses.
DefaultTarget == <<Http \o DefaultAddr, DefaultPath>>
DefaultParsed == NewRequestOk(DefaultTarget[1] \o DefaultTarget[2])

\* req is not nil, so req.Header.Set does not panic.
RequestBuilt ==
  IF addr = DefaultTarget[1] /\ path = DefaultTarget[2]
    THEN DefaultParsed
  ELSE IF <<addr, path>> \in Targets
    THEN <<addr, path>> \in ParsedTargets
    ELSE NewRequestOk(addr \o path)

\* http.NewRequest(http.MethodPost, syncer.addr+syncer.path, streams)
Request(entries) ==
  [url |-> addr \o path, headers |-> Header,
   streams |-> newLokiStreamList(entries)]

\* Mutant: the entry keeps the caller's slice, which is read when the entry
\* is sent.
LineSentFromSlice(e) == buf[e.w]

\* entry.Values[1] as newLokiStreamList reads it: the string(p) that Write
\* made, a copy of the caller's bytes.
LineSent(e) == e.line

\* Mutant: the time is taken when the entry is sent.
TimeSentNow(e) == now

\* entry.Values[0]: the time.Now().UnixNano() that Write formatted.
TimeSent(e) == e.ts

\* The entry as send serializes it.
Sent(e) == [e EXCEPT !.line = LineSent(e), !.ts = TimeSent(e)]

\* The entries of a batch as send serializes them, in the order of the batch.
RECURSIVE SentAll(_)
SentAll(b) ==
  IF b = <<>> THEN <<>> ELSE <<Sent(Head(b))>> \o SentAll(Tail(b))

\* The history of a call of send(b) by actor a. The request of a send made
\* by the loop is built the same way from the entries of b; it is recorded only for
\* the direct calls below.
SendCalled(a, kind, b) ==
  /\ UNCHANGED lastReq
  /\ sentLog' = Append(sentLog, [by |-> a, kind |-> kind, entries |-> SentAll(b)])
  /\ inFlight' = inFlight + 1
  /\ senders' = senders \cup {a}

\* Bootstrap: go func() {...}()
NextLoop == IF started = 0 THEN "l1" ELSE "l2"

Bootstrap(l) ==
  /\ lpc[l] = "none"
  /\ lpc' = [lpc EXCEPT ![l] = "spawned"]
  /\ started' = started + 1
  /\ UNCHANGED <<otherVars, cfgVars, labels, quitClosed, waitGroup, batch, batchSize,
                 timerLeft, timerC, writerVars, stopVars, syncRet, histVars, raced>>

\* var batch; batchSize := 0; waitChannel := time.NewTimer(maxBatchWaitMs)
LoopInit(l) ==
  /\ lpc[l] = "spawned"
  /\ lpc' = [lpc EXCEPT ![l] = "select"]
  /\ batch' = [batch EXCEPT ![l] = <<>>]
  /\ batchSize' = [batchSize EXCEPT ![l] = 0]
  /\ timerLeft' = TimerReset(l)
  /\ UNCHANGED <<otherVars, cfgVars, labels, quitClosed, waitGroup, started, timerC,
                 writerVars, stopVars, syncRet, histVars, raced>>

\* case entry := <-syncer.logChannel: the rendezvous with writer w.
LoopRecv(l, w) ==
  /\ lpc[l] = "select"
  /\ wpc[w] = "blocked"
  /\ LET nb == AppendEntry(batch[l], wentry[w])
         ns == batchSize[l] + 1
     IN /\ batch' = [batch EXCEPT ![l] = nb]
        /\ batchSize' = [batchSize EXCEPT ![l] = ns]
        /\ accepted' = Append(accepted, wentry[w])
        /\ wpc' = [wpc EXCEPT ![w] = "handed"]
        /\ IF SizeReached(ns)
             THEN /\ lpc' = [lpc EXCEPT ![l] = SendPc("send_size")]
                  /\ SendCalled(l, "size", nb)
             ELSE UNCHANGED <<lpc, sentLog, inFlight, senders, lastReq>>
  /\ UNCHANGED <<otherVars, cfgVars, labels, quitClosed, waitGroup, started, timerLeft,
                 timerC, wentry, issued, stopVars, syncRet,
                 returned, lastOutcome, raced>>

\* case <-waitChannel.C
LoopTimer(l) ==
  /\ lpc[l] = "select"
  /\ timerC[l]
  /\ timerC' = [timerC EXCEPT ![l] = FALSE]
  /\ IF TimerSends(l)
       THEN /\ lpc' = [lpc EXCEPT ![l] = SendPc("send_timer")]
            /\ SendCalled(l, "timer", batch[l])
            /\ UNCHANGED timerLeft
       ELSE /\ timerLeft' = TimerReset(l)
            /\ UNCHANGED <<lpc, sentLog, inFlight, senders, lastReq>>
  /\ UNCHANGED <<otherVars, cfgVars, labels, quitClosed, waitGroup, started, batch,
                 batchSize, writerVars, stopVars, syncRet, accepted, returned,
                 lastOutcome, raced>>

\* resp.StatusCode != 204
StatusNoContent == 204
\* What syncer.httpClient.Do(req) returns: an error, or a response with a
\* status code.
Statuses == {200, 204, 205, 400, 500}
Responses ==
  {[err |-> TRUE, status |-> 0]} \cup
  {[err |-> FALSE, status |-> c] : c \in Statuses}

\* Mutant: every status of the 2xx class counts as delivered.
StatusOkAny2xx(status) == status \div 100 = 2

\* The status that send takes for a delivery.
StatusOk(status) == ~(status # StatusNoContent)

\* How send ends on what Do returned: err != nil, then StatusCode != 204.
Outcome(r) ==
  IF r.err THEN "failure"
  ELSE IF ~StatusOk(r.status) THEN "rejected"
  ELSE "delivered"

\* What send prints with log.Printf before it returns.
Logged(r) ==
  IF r.err THEN "Failed to send an HTTP request"
  ELSE IF ~StatusOk(r.status) THEN "Unexpected HTTP status code"
  ELSE "none"

\* The body of the response when send returns: Do returns no response with
\* an error and a response with an open body otherwise, and send returns on
\* each of its three paths without a call of resp.Body.Close().
BodyAtReturn(r) == IF r.err THEN "none" ELSE "open"

\* What a call of send leaves behind: what Do returned, what was logged and
\* the response body.
Received(r) ==
  [err |-> r.err, status |-> r.status, logged |-> Logged(r),
   body |-> BodyAtReturn(r)]

\* The responses that a send gets where the status code does not matter: one
\* for each way send can end.
ResponseKinds ==
  {[err |-> TRUE, status |-> 0], [err |-> FALSE, status |-> StatusNoContent],
   [err |-> FALSE, status |-> 500]}

\* send returns inside the loop body: batch = []; batchSize = 0; Reset.
SendReturn(l, r) ==
  /\ lpc[l] \in {"send_size", "send_timer"}
  /\ RequestBuilt
  /\ lastOutcome' = Outcome(r)
  /\ lastResp' = Received(r)
  /\ inFlight' = inFlight - 1
  /\ batch' = [batch EXCEPT ![l] = AfterFlush(batch[l])]
  /\ batchSize' = [batchSize EXCEPT ![l] = SizeAfterFlush(batchSize[l])]
  /\ timerLeft' = TimerReset(l)
  /\ lpc' = [lpc EXCEPT ![l] = "select"]
  /\ UNCHANGED <<fnVars, copyVars, auxVars, cfgVars, labels, quitClosed, waitGroup,
                 started, timerC, writerVars, stopVars, syncRet, sentLog,
                 accepted, returned, senders, lastReq, raced>>

\* case <-syncer.quitChannel: return, which runs the deferred function.
LoopQuit(l) ==
  /\ lpc[l] = "select"
  /\ quitClosed
  /\ IF DeferSends(l)
       THEN /\ lpc' = [lpc EXCEPT ![l] = SendPc("send_final")]
            /\ SendCalled(l, "final", batch[l])
            /\ UNCHANGED waitGroup
       ELSE /\ lpc' = [lpc EXCEPT ![l] = "done"]
            /\ waitGroup' = WgDone
            /\ UNCHANGED <<sentLog, inFlight, senders, lastReq>>
  /\ UNCHANGED <<otherVars, cfgVars, labels, quitClosed, started, batch, batchSize,
                 timerLeft, timerC, writerVars, stopVars, syncRet, accepted,
                 returned, lastOutcome, raced>>

\* The deferred send returns; syncer.waitGroup.Done().
FinalSendReturn(l, r) ==
  /\ lpc[l] = "send_final"
  /\ RequestBuilt
  /\ lastOutcome' = Outcome(r)
  /\ lastResp' = Received(r)
  /\ inFlight' = inFlight - 1
  /\ lpc' = [lpc EXCEPT ![l] = "done"]
  /\ waitGroup' = WgDone
  /\ UNCHANGED <<fnVars, copyVars, auxVars, cfgVars, labels, quitClosed, started, batch, batchSize,
                 timerLeft, timerC, writerVars, stopVars, syncRet, sentLog,
                 accepted, returned, senders, lastReq, raced>>

\* ---------------------------------------------------------------- writers
\* Mutant: Write reports a failed write.
WriteResultError(p) == [n |-> 0, err |-> "error"]

\* return len(p), nil
WriteResult(p) == [n |-> Len(p), err |-> "nil"]

\* Write(p): the entry is built and offered on logChannel.
WriteCall(w, p) ==
  /\ wpc[w] = "idle"
  /\ issued < MaxWrites
  /\ issued' = issued + 1
  /\ wentry' = [wentry EXCEPT ![w] = [w |-> w, seq |-> issued + 1, ts |-> now,
                                      line |-> p]]
  /\ buf' = [buf EXCEPT ![w] = p]
  /\ wpc' = [wpc EXCEPT ![w] = "blocked"]
  /\ raced' = (raced \/ quitClosed)
  /\ UNCHANGED <<fnVars, copyVars, lastResp, ser, now, cfgVars, labels, quitClosed, waitGroup, started, loopVars,
                 stopVars, syncRet, histVars>>

\* The channel send has completed; Write returns.
WriteReturn(w) ==
  /\ wpc[w] = "handed"
  /\ returned' = returned \cup {[e |-> wentry[w], ret |-> WriteResult(wentry[w].line)]}
  /\ wpc' = [wpc EXCEPT ![w] = "idle"]
  /\ wentry' = [wentry EXCEPT ![w] = NoEntry]
  /\ UNCHANGED <<otherVars, cfgVars, labels, quitClosed, waitGroup, started, loopVars,
                 issued, stopVars, syncRet, sentLog, accepted,
                 inFlight, senders, lastOutcome, lastReq, raced>>

\* Mutant: Sync makes the loop's pending batch go out before it returns.
SyncFlushing ==
  /\ syncRet' = "nil"
  /\ batch' = [l \in Loops |-> <<>>]
  /\ batchSize' = [l \in Loops |-> 0]
  /\ sentLog' = IF batch["l1"] = <<>> THEN sentLog
                ELSE Append(sentLog, [by |-> "sync", kind |-> "sync",
                                      entries |-> batch["l1"]])
  /\ UNCHANGED <<otherVars, cfgVars, labels, quitClosed, waitGroup, started, lpc,
                 timerLeft, timerC, writerVars, stopVars, accepted, returned,
                 inFlight, senders, lastOutcome, lastReq, raced>>

\* Sync(): return nil
Sync ==
  /\ syncRet' = "nil"
  /\ UNCHANGED <<otherVars, cfgVars, labels, quitClosed, waitGroup, started, loopVars,
                 writerVars, stopVars, histVars, raced>>

\* a.m[k] = v under the mutex
MapSet(m, k, v) == [x \in DOMAIN m \cup {k} |-> IF x = k THEN v ELSE m[x]]

\* AddLabel(key, value): syncer.labels.Set(key, value)
AddLabel(k, v) ==
  /\ labels' = MapSet(labels, k, v)
  /\ labels' # labels
  /\ UNCHANGED <<otherVars, cfgVars, quitClosed, waitGroup, started, loopVars, writerVars,
                 stopVars, syncRet, histVars, raced>>

\* ------------------------------------------------------- NewLokiSyncer
\* The sink as the struct literal of NewLokiSyncer leaves it, before any
\* option is applied.
Literal ==
  /\ addr = DefaultAddr
  /\ path = DefaultPath
  /\ username = <<>>
  /\ password = <<>>
  /\ tlsConfig = "nil"
  /\ basicAuthHeader = <<>>
  /\ maxBatchWaitMs = DefaultMaxBatchWaitMs
  /\ maxBatchSize = DefaultMaxBatchSize
  /\ labels = NoLabels
  /\ quitClosed = FALSE
  /\ waitGroup = 0
  /\ cpc = "opts"
  /\ applied = <<>>

CtorInit == Literal /\ Unused /\ Idle

\* What callers pass to the options.
AddrInputs == {<<>>, UtAddr, Http \o UtAddr}
PathInputs == {<<>>, UtPath}
UsernameInputs == {<<>>, UtName}
PasswordInputs == {<<>>, UtPass}
TlsInputs == {"nil", "conf"}
WaitInputs == {-UsPerMs, 0, UsPerMs \div 2, UsPerMs, 1000 * UsPerMs}
SizeInputs == {-1, 0, 10}
KeyInputs == {<<>>, UtKey, UtKeyValid, RkLogger}
ValueInputs == {<<>>, UtValue}

\* for i := range opts { opts[i](syncer) }: the next option is applied.
Applies(name, arg) ==
  /\ cpc = "opts"
  /\ Len(applied) < MaxOpts
  /\ applied' = Append(applied, Opt(name, arg))
  /\ UNCHANGED <<cpc, basicAuthHeader, quitClosed, waitGroup, runVars,
                 otherVars>>

\* Mutant: the address is taken even when it is empty.
AddrAcceptedAny(a) == TRUE

\* if len(addr) > 0
AddrAccepted(a) == Len(a) > 0

WithLokiAddr(a) ==
  /\ Applies("WithLokiAddr", a)
  /\ addr' = IF AddrAccepted(a) THEN a ELSE addr
  /\ UNCHANGED <<path, username, password, tlsConfig, labels, maxBatchSize,
                 maxBatchWaitMs>>

WithLokiPath(p) ==
  /\ Applies("WithLokiPath", p)
  /\ path' = IF Len(p) > 0 THEN p ELSE path
  /\ UNCHANGED <<addr, username, password, tlsConfig, labels, maxBatchSize,
                 maxBatchWaitMs>>

WithLokiUsername(u) ==
  /\ Applies("WithLokiUsername", u)
  /\ username' = u
  /\ UNCHANGED <<addr, path, password, tlsConfig, labels, maxBatchSize,
                 maxBatchWaitMs>>

WithLokiPassword(pw) ==
  /\ Applies("WithLokiPassword", pw)
  /\ password' = pw
  /\ UNCHANGED <<addr, path, username, tlsConfig, labels, maxBatchSize,
                 maxBatchWaitMs>>

WithLokiClientTls(conf) ==
  /\ Applies("WithLokiClientTls", conf)
  /\ tlsConfig' = conf
  /\ UNCHANGED <<addr, path, username, password, labels, maxBatchSize,
                 maxBatchWaitMs>>

\* Mutant: a digit is accepted in the first place too.
isValidLabelNameDigitFirst(name) ==
  /\ Len(name) # 0
  /\ \A i \in 1..Len(name) :
       LET b == Code(name[i])
       IN \/ (b >= Code("a") /\ b <= Code("z"))
          \/ (b >= Code("A") /\ b <= Code("Z"))
          \/ b = Code("_")
          \/ b = Code(":")
          \/ (b >= Code("0") /\ b <= Code("9"))

\* isValidLabelName(name): non-empty, every rune a letter, "_" or ":", or a
\* digit that is not the first one (i > 0; Go counts from 0).
isValidLabelName(name) ==
  /\ Len(name) # 0
  /\ \A i \in 1..Len(name) :
       LET b == Code(name[i])
       IN \/ (b >= Code("a") /\ b <= Code("z"))
          \/ (b >= Code("A") /\ b <= Code("Z"))
          \/ b = Code("_")
          \/ b = Code(":")
          \/ (b >= Code("0") /\ b <= Code("9") /\ i - 1 > 0)

WithLokiLabel(k, v) ==
  /\ Applies("WithLokiLabel", <<k, v>>)
  /\ labels' = IF Len(k) > 0 /\ Len(v) > 0 /\ isValidLabelName(k)
                 THEN MapSet(labels, k, v) ELSE labels
  /\ UNCHANGED <<addr, path, username, password, tlsConfig, maxBatchSize,
                 maxBatchWaitMs>>

\* if in.Milliseconds() > 0
WaitAccepted(in) == Milliseconds(in) > 0

WithLokiMaxBatchWaitMs(in) ==
  /\ Applies("WithLokiMaxBatchWaitMs", in)
  /\ maxBatchWaitMs' = IF WaitAccepted(in) THEN in ELSE maxBatchWaitMs
  /\ UNCHANGED <<addr, path, username, password, tlsConfig, labels,
                 maxBatchSize>>

\* Mutant: any batch size is taken.
SizeAcceptedAny(batchSize_) == TRUE

\* if batchSize > 0
SizeAccepted(batchSize_) == batchSize_ > 0

WithLokiMaxBatchSize(batchSize_) ==
  /\ Applies("WithLokiMaxBatchSize", batchSize_)
  /\ maxBatchSize' = IF SizeAccepted(batchSize_) THEN batchSize_ ELSE maxBatchSize
  /\ UNCHANGED <<addr, path, username, password, tlsConfig, labels,
                 maxBatchWaitMs>>

\* Mutant: the scheme does not depend on the TLS configuration.
SchemeAlwaysHttp(conf) == Http

\* initHttpClient: the scheme put in front of syncer.addr. The two TrimPrefix
\* calls before it discard their results and leave syncer.addr as it is.
Scheme(conf) == IF conf # "nil" THEN Https ELSE Http

\* Mutant: the header is built from whatever username and password hold.
initBasicAuthAlways(u, pw) == Basic \o Base64(Bytes(u \o Colon \o pw))

\* initBasicAuth: the header, set only when both strings are non-empty.
initBasicAuth(u, pw) ==
  IF Len(u) > 0 /\ Len(pw) > 0
    THEN Basic \o Base64(Bytes(u \o Colon \o pw))
    ELSE basicAuthHeader

\* The rest of NewLokiSyncer: the reserved label, initHttpClient,
\* initBasicAuth, waitGroup.Add(1), return.
Construct ==
  /\ cpc = "opts"
  /\ cpc' = "built"
  /\ labels' = MapSet(labels, RkLogger, V1)
  /\ addr' = Scheme(tlsConfig) \o addr
  /\ basicAuthHeader' = initBasicAuth(username, password)
  /\ waitGroup' = waitGroup + 1
  /\ UNCHANGED <<path, username, password, tlsConfig, maxBatchSize,
                 maxBatchWaitMs, applied, quitClosed, runVars, otherVars>>

\* The entry list handed to send by a caller inside the package.
DirectBatch == <<LokiValue(<<"1">>, Ut, NoLabels)>>

\* send(entries) is entered by a caller inside the package.
SendStart(entries) ==
  /\ cpc = "built"
  /\ ~ser.on
  /\ Len(sentLog) < MaxDirectSends
  /\ ser' = [on |-> TRUE, entries |-> entries, streams |-> <<>>]
  /\ UNCHANGED <<fnVars, copyVars, lastResp, now, buf, cfgVars, labels,
                 quitClosed, waitGroup, runVars>>

\* for i := range values: one pass, with its own syncer.labels.Copy().
SerializeEntry ==
  /\ ser.on
  /\ Len(ser.streams) < Len(ser.entries)
  /\ ser' = [ser EXCEPT
               !.streams = Append(@, Stream(ser.entries[Len(ser.streams) + 1]))]
  /\ UNCHANGED <<fnVars, copyVars, lastResp, now, buf, cfgVars, labels,
                 quitClosed, waitGroup, runVars>>

\* The rest of send: the request is built from the streams and sent, and
\* send returns.
SendFinish(r) ==
  /\ ser.on
  /\ Len(ser.streams) = Len(ser.entries)
  /\ RequestBuilt
  /\ lastReq' = [url |-> addr \o path, headers |-> Header, streams |-> ser.streams]
  /\ lastResp' = Received(r)
  /\ lastOutcome' = Outcome(r)
  /\ sentLog' = Append(sentLog, [by |-> "caller", kind |-> "direct",
                                 entries |-> ser.entries])
  /\ senders' = senders \cup {"caller"}
  /\ ser' = NoSer
  /\ UNCHANGED <<fnVars, copyVars, now, buf, cfgVars, labels, quitClosed,
                 waitGroup, started, loopVars, writerVars, stopVars, syncRet,
                 accepted, returned, inFlight, raced>>

\* The rest of send on a sink whose address and path do not parse: req is
\* nil and req.Header.Set panics in the caller's goroutine.
SendFinishPanics ==
  /\ ser.on
  /\ Len(ser.streams) = Len(ser.entries)
  /\ ~RequestBuilt
  /\ lastOutcome' = "panic"
  /\ sentLog' = Append(sentLog, [by |-> "caller", kind |-> "direct",
                                 entries |-> ser.entries])
  /\ senders' = senders \cup {"caller"}
  /\ ser' = NoSer
  /\ UNCHANGED <<fnVars, copyVars, lastResp, lastReq, now, buf, cfgVars, labels,
                 quitClosed, waitGroup, started, loopVars, writerVars, stopVars,
                 syncRet, accepted, returned, inFlight, raced>>

\* send called by a loop dereferences the nil request: req.Header.Set panics
\* in the loop's goroutine. A panic in the loop body runs the deferred
\* function, which calls send once more when batchSize > 0 and calls Done
\* otherwise; a panic of that deferred send ends the goroutine, and nothing
\* recovers it.
SendPanics(l) ==
  /\ lpc[l] \in SendPcs
  /\ ~RequestBuilt
  /\ lastOutcome' = "panic"
  /\ IF lpc[l] = "send_final"
       THEN /\ lpc' = [lpc EXCEPT ![l] = "panicked"]
            /\ inFlight' = inFlight - 1
            /\ UNCHANGED <<waitGroup, sentLog, senders, lastReq>>
       ELSE IF DeferSends(l)
         THEN /\ lpc' = [lpc EXCEPT ![l] = SendPc("send_final")]
              /\ sentLog' = Append(sentLog, [by |-> l, kind |-> "final",
                                             entries |-> SentAll(batch[l])])
              /\ UNCHANGED <<waitGroup, inFlight, senders, lastReq>>
         ELSE /\ lpc' = [lpc EXCEPT ![l] = "panicked"]
              /\ waitGroup' = WgDone
              /\ inFlight' = inFlight - 1
              /\ UNCHANGED <<sentLog, senders, lastReq>>
  /\ UNCHANGED <<otherVars, cfgVars, labels, quitClosed, started,
                 batch, batchSize, timerLeft, timerC, writerVars, stopVars,
                 syncRet, accepted, returned, raced>>

\* -------------------------------------------------------------- Interrupt
\* Mutant: closing a channel that is already closed does nothing.
ClosePanicsNever == FALSE

\* close(syncer.quitChannel) panics when the channel is already closed.
ClosePanics == quitClosed

\* close(syncer.quitChannel)
InterruptCall(s) ==
  /\ ipc[s] = "idle"
  /\ ~ClosePanics
  /\ quitClosed' = TRUE
  /\ ipc' = [ipc EXCEPT ![s] = "wait"]
  /\ pendingAtStop' = [l \in Loops |-> Unflushed(l)]
  /\ sentAtStop' = Len(sentLog)
  /\ raced' = (raced \/ \E w \in Writers : wpc[w] = "blocked")
  /\ UNCHANGED <<otherVars, cfgVars, labels, waitGroup, started, loopVars, writerVars,
                 syncRet, histVars>>

\* close(syncer.quitChannel) of a later Interrupt: the panic of a close of a
\* closed channel, raised in the caller's goroutine.
InterruptPanics(s) ==
  /\ ipc[s] = "idle"
  /\ ClosePanics
  /\ ipc' = [ipc EXCEPT ![s] = "panicked"]
  /\ UNCHANGED <<otherVars, cfgVars, labels, quitClosed, waitGroup, started, loopVars,
                 writerVars, pendingAtStop, sentAtStop, syncRet, histVars, raced>>

\* Mutant: Interrupt does not wait for the loop.
WaitReturnsAtOnce == TRUE

\* syncer.waitGroup.Wait() returns once the counter is zero.
WaitReturns == waitGroup = 0

InterruptReturn(s) ==
  /\ ipc[s] = "wait"
  /\ WaitReturns
  /\ ipc' = [ipc EXCEPT ![s] = "returned"]
  /\ UNCHANGED <<otherVars, cfgVars, labels, quitClosed, waitGroup, started, loopVars,
                 writerVars, pendingAtStop, sentAtStop, syncRet, histVars, raced>>

\* --------------------------------------------------------- specifications
\* The steps of the background loop, of time and of Interrupt.
LoopNext ==
  \/ started = 0 /\ Bootstrap(NextLoop)
  \/ \E l \in Loops : LoopInit(l)
  \/ \E l \in Loops, w \in Writers : LoopRecv(l, w)
  \/ \E l \in Loops : LoopTimer(l)
  \/ \E l \in Loops, r \in ResponseKinds : SendReturn(l, r)
  \/ \E l \in Loops : LoopQuit(l)
  \/ \E l \in Loops, r \in ResponseKinds : FinalSendReturn(l, r)
  \/ Tick
  \/ \E w \in Writers : WriteReturn(w)
  \/ InterruptCall("s1")
  \/ InterruptReturn("s1")

\* A sink started once and stopped once, with concurrent writers.
Next ==
  \/ LoopNext
  \/ \E w \in Writers, p \in FullPayloads : WriteCall(w, p)

Spec == Init /\ [][Next]_vars

\* The same sink in runs of fewer Write calls.
ShortNext ==
  \/ LoopNext
  \/ \E w \in Writers, p \in FullPayloads : issued < MaxShortWrites /\ WriteCall(w, p)

\* Scheduling: a runnable goroutine eventually runs (the loop starts, a send
\* that returns lets the loop go on, a satisfied Wait returns), and select
\* picks among its ready cases at random, so a quit case that is ready every
\* time the loop comes back to select is eventually taken.
Fairness ==
  /\ WF_vars(LoopInit("l1"))
  /\ WF_vars(\E r \in ResponseKinds : SendReturn("l1", r))
  /\ WF_vars(\E r \in ResponseKinds : FinalSendReturn("l1", r))
  /\ SF_vars(LoopQuit("l1"))
  /\ WF_vars(InterruptReturn("s1"))

FairSpec == Init /\ [][ShortNext]_vars /\ Fairness

\* Time passes, so an armed timer eventually fires, and select eventually
\* takes a timer case that is ready every time the loop comes back to it.
TimerFairness ==
  /\ WF_vars(Tick)
  /\ SF_vars(LoopTimer("l1"))

TimedSpec == Init /\ [][ShortNext]_vars /\ Fairness /\ TimerFairness

\* The sink written to with every payload.
WriteNext ==
  \/ LoopNext
  \/ \E w \in Writers, p \in Payloads : issued < MaxShortWrites /\ WriteCall(w, p)

WriteSpec == Init /\ [][WriteNext]_vars

\* The sink with Sync and AddLabel called beside Write and Interrupt.
SinkNext ==
  \/ ShortNext
  \/ Sync
  \/ \E k \in LabelKeys, v \in LabelValues : AddLabel(k, v)

SinkSpec == Init /\ [][SinkNext]_vars

\* NewLokiSyncer called with every sequence of options (labels apart), and
\* the request that the constructed sink builds.
CtorNext ==
  \/ \E a \in AddrInputs : WithLokiAddr(a)
  \/ \E p \in PathInputs : WithLokiPath(p)
  \/ \E u \in UsernameInputs : WithLokiUsername(u)
  \/ \E pw \in PasswordInputs : WithLokiPassword(pw)
  \/ \E conf \in TlsInputs : WithLokiClientTls(conf)
  \/ \E in \in WaitInputs : WithLokiMaxBatchWaitMs(in)
  \/ \E n \in SizeInputs : WithLokiMaxBatchSize(n)
  \/ Construct
  \/ SendStart(DirectBatch)
  \/ SerializeEntry
  \/ \E r \in ResponseKinds : SendFinish(r)
  \/ SendFinishPanics

CtorSpec == CtorInit /\ [][CtorNext]_vars

\* The labels of a sink: WithLokiLabel at construction, AddLabel afterwards,
\* and the streams of the request built from them.
LabelNext ==
  \/ \E k \in KeyInputs, v \in ValueInputs :
       Len(applied) < MaxLabelOpts /\ WithLokiLabel(k, v)
  \/ Construct
  \/ \E k \in KeyInputs, v \in ValueInputs : cpc = "built" /\ AddLabel(k, v)
  \/ SendStart(DirectBatch)
  \/ SerializeEntry
  \/ \E r \in ResponseKinds : SendFinish(r)

LabelSpec == CtorInit /\ [][LabelNext]_vars

\* ------------------------------------------------------------- properties
RECURSIVE Flatten(_)
\* The entries of a sequence of send calls, in the order they were passed.
Flatten(log) ==
  IF log = <<>> THEN <<>> ELSE log[1].entries \o Flatten(Tail(log))

\* How many times entry e was passed to send.
Occurrences(e) ==
  Cardinality({ij \in UNION {{<<i, j>> : j \in 1..Len(sentLog[i].entries)} :
                             i \in 1..Len(sentLog)} :
                 sentLog[ij[1]].entries[ij[2]] = e})

\* The send calls made after Interrupt closed the quit channel.
SendsAfterStop == SubSeq(sentLog, sentAtStop + 1, Len(sentLog))

\* A step by which writer w's pending Write gets its entry taken.
WriteProgress(w) == \E l \in Loops : LoopRecv(l, w)

\* C1: once Interrupt has returned, every entry whose Write returned has been
\* passed to send exactly once; and no entry is ever passed to send twice.
C1_EveryReturnedEntrySentOnce ==
  /\ \A i \in 1..Len(accepted) : Occurrences(accepted[i]) <= 1
  /\ ipc["s1"] = "returned" =>
       \A r \in returned : Occurrences(r.e) = 1

\* C1 witness: Interrupt returned after two Writes returned and the loop sent
\* a size-triggered batch and a final batch.
C1_Witness ==
  /\ ipc["s1"] = "returned"
  /\ Cardinality(returned) >= 2
  /\ \E i, j \in 1..Len(sentLog) :
       sentLog[i].kind = "size" /\ sentLog[j].kind = "final"

\* C2: a Write issued while the loop is inside send can complete without
\* waiting for that send to return.
C2_WriteNotBlockedBySend ==
  \A w \in Writers :
    (wpc[w] = "blocked" /\ \E l \in Loops : lpc[l] \in SendPcs)
      => ENABLED WriteProgress(w)

\* C3: a Write racing with Interrupt, or issued after Interrupt returned, can
\* still complete: it is never left waiting on a sink whose loop has exited.
C3_WriteReturnsAfterStop ==
  \A w \in Writers :
    (wpc[w] = "blocked" /\ lpc["l1"] = "done") => ENABLED WriteProgress(w)

\* C4: in every state where Interrupt has returned, the loop has exited and
\* no send is in progress.
C4_InterruptWaitsForLoop ==
  ipc["s1"] = "returned" => (lpc["l1"] = "done" /\ inFlight = 0)

\* C4 witness: Interrupt returned after the loop's final send.
C4_Witness ==
  /\ ipc["s1"] = "returned"
  /\ sentLog # <<>>
  /\ sentLog[Len(sentLog)].kind = "final"

\* The sends after Interrupt are exactly one send of the K unflushed entries,
\* or none when K = 0.
DrainsExactly(l) ==
  LET K == Len(pendingAtStop[l])
  IN /\ (K > 0 /\ K < maxBatchSize) =>
          /\ Len(SendsAfterStop) = 1
          /\ SendsAfterStop[1].entries = pendingAtStop[l]
     /\ K = 0 => SendsAfterStop = <<>>

\* C5 as stated: with K unflushed entries at Interrupt, exactly one further
\* send carries exactly those K entries; with K = 0 there is no further send.
C5_Original ==
  (lpc["l1"] = "done" /\ ipc["s1"] # "idle") => DrainsExactly("l1")

\* C5 amended: the same, provided no Write is pending on the channel when
\* Interrupt is called and none is issued afterwards; and once the loop has
\* exited, nothing is sent any more.
C5_DrainOnStop ==
  /\ []((lpc["l1"] = "done" /\ ipc["s1"] # "idle" /\ ~raced) => DrainsExactly("l1"))
  /\ [][lpc["l1"] = "done" => sentLog' = sentLog]_vars

\* C5 witness: Interrupt found one unflushed entry with maxBatchSize 2, no
\* Write raced, and the loop exited after one further send.
C5_Witness ==
  /\ lpc["l1"] = "done"
  /\ ~raced
  /\ Len(pendingAtStop["l1"]) = 1
  /\ maxBatchSize > 1
  /\ Len(SendsAfterStop) = 1

\* C6: on a started sink, a call of Interrupt eventually returns, whatever
\* the outcomes of the sends.
C6_InterruptReturns ==
  (ipc["s1"] = "wait" /\ started = 1) ~> (ipc["s1"] = "returned")

\* C6 witness: Interrupt returned after a final send that failed.
C6_Witness ==
  /\ ipc["s1"] = "returned"
  /\ sentLog # <<>>
  /\ sentLog[Len(sentLog)].kind = "final"
  /\ lastOutcome = "failure"

\* C7: every Write that returned reported the length of its payload and no
\* error.
C7_WriteReturnsLenNil ==
  \A r \in returned : r.ret = [n |-> Len(r.e.line), err |-> "nil"]

\* C7 witness: Writes of an empty and of a non-empty payload have returned,
\* and a send has failed.
C7_Witness ==
  /\ \E r1, r2 \in returned : Len(r1.e.line) = 0 /\ Len(r2.e.line) > 0
  /\ lastOutcome = "failure"

\* C8: the entries passed to send, batch after batch, followed by the
\* unflushed ones, are the accepted entries in acceptance order; and the
\* entries of one caller are accepted in the order that caller wrote them.
C8_Fifo ==
  /\ Flatten(sentLog) \o Unflushed("l1") = accepted
  /\ \A i, j \in 1..Len(accepted) :
       (i < j /\ accepted[i].w = accepted[j].w) => accepted[i].seq < accepted[j].seq

\* C8 witness: two batches were sent, one of them with two entries, and one
\* caller has had two entries accepted.
C8_Witness ==
  /\ Len(sentLog) >= 2
  /\ \E i \in 1..Len(sentLog) : Len(sentLog[i].entries) >= 2
  /\ \E i, j \in 1..Len(accepted) : i < j /\ accepted[i].w = accepted[j].w

\* C9: at most one send is in flight, and only a background loop has ever
\* executed send.
C9_OneSendByLoopOnly ==
  /\ inFlight <= 1
  /\ senders \subseteq Loops

\* C9 witness: a send is in flight while a Write is pending, Sync and
\* AddLabel have been called and Interrupt is waiting.
C9_Witness ==
  /\ inFlight = 1
  /\ \E w \in Writers : wpc[w] = "blocked"
  /\ syncRet = "nil"
  /\ App \in DOMAIN labels
  /\ ipc["s1"] = "wait"

\* C10: the step that accepts the N-th entry since the last flush, N being
\* maxBatchSize, passes exactly those N entries to send once; when that send
\* returns the batch is empty, the counter is 0 and the timer is armed for a
\* full maxBatchWaitMs; and the loop never waits in select with N entries.
C10_SizeFlush ==
  /\ [](\A l \in Loops : lpc[l] = "select" => Len(batch[l]) < maxBatchSize)
  /\ [][\A l \in Loops :
          (lpc[l] = "select" /\ lpc'[l] = "send_size") =>
            /\ Len(sentLog') = Len(sentLog) + 1
            /\ sentLog'[Len(sentLog')].entries = batch'[l]
            /\ Len(batch'[l]) = maxBatchSize
            /\ batch'[l] = SubSeq(accepted', Len(accepted') - maxBatchSize + 1,
                                  Len(accepted'))]_vars
  /\ [][\A l \in Loops :
          (lpc[l] = "send_size" /\ lpc'[l] # "send_size") =>
            /\ lpc'[l] = "select"
            /\ sentLog' = sentLog
            /\ batch'[l] = <<>>
            /\ batchSize'[l] = 0
            /\ timerLeft'[l] = Milliseconds(maxBatchWaitMs)
            /\ (~timerC[l] => ~timerC'[l])]_vars

\* C10 witness: with maxBatchSize 2, a size-triggered send of two entries has
\* returned and the loop is back in select with an empty batch and a timer
\* armed for the full wait.
C10_Witness ==
  /\ maxBatchSize = 2
  /\ lpc["l1"] = "select"
  /\ sentLog # <<>>
  /\ sentLog[Len(sentLog)].kind = "size"
  /\ Len(sentLog[Len(sentLog)].entries) = 2
  /\ batch["l1"] = <<>>
  /\ batchSize["l1"] = 0
  /\ timerLeft["l1"] = Milliseconds(maxBatchWaitMs)
  /\ ~timerC["l1"]

\* C11: timer-triggered flush. When the loop takes the timer case with a
\* non-empty batch it passes exactly that batch to send, once, and when the
\* send returns the batch is empty and the timer is armed again for
\* maxBatchWaitMs; with an empty batch the timer case sends nothing and arms
\* the timer again; and a loop waiting in select always has its timer armed
\* or already fired, so the timer case comes up again.
C11_TimerFlush ==
  /\ [](\A l \in Loops : lpc[l] = "select" => (timerLeft[l] > 0 \/ timerC[l]))
  /\ [][\A l \in Loops :
          (timerC[l] /\ ~timerC'[l]) =>
            IF batch[l] # <<>>
              THEN /\ sentLog' = Append(sentLog, [by |-> l, kind |-> "timer",
                                                  entries |-> batch[l]])
                   /\ lpc'[l] = "send_timer"
              ELSE /\ sentLog' = sentLog
                   /\ lpc'[l] = "select"
                   /\ timerLeft'[l] = Milliseconds(maxBatchWaitMs)]_vars
  /\ [][\A l \in Loops :
          (lpc[l] = "send_timer" /\ lpc'[l] # "send_timer") =>
            /\ lpc'[l] = "select"
            /\ sentLog' = sentLog
            /\ batch'[l] = <<>>
            /\ batchSize'[l] = 0
            /\ timerLeft'[l] = Milliseconds(maxBatchWaitMs)]_vars

\* A batch was flushed by the timer, the send has returned and the timer runs
\* again.
C11_Witness ==
  /\ lpc["l1"] = "select"
  /\ sentLog # <<>>
  /\ sentLog[Len(sentLog)].kind = "timer"
  /\ sentLog[Len(sentLog)].entries # <<>>
  /\ batch["l1"] = <<>>
  /\ timerLeft["l1"] = Milliseconds(maxBatchWaitMs)
  /\ ~timerC["l1"]

\* C12: under fair scheduling of the loop and a timer that eventually fires,
\* every entry the running loop has accepted from Write is eventually passed
\* to send (by the size threshold, the timer or the shutdown drain). Accepted
\* and sent entries stay so, hence "every accepted entry is eventually sent"
\* is the recurrence of the states in which no accepted entry is unsent.
C12_AcceptedEventuallySent ==
  []<>(\A i \in 1..Len(accepted) : Occurrences(accepted[i]) >= 1)

\* An entry that waited in a batch below the threshold was sent by the timer,
\* and nothing accepted is left unsent.
C12_Witness ==
  /\ maxBatchSize = 2
  /\ \E i \in 1..Len(sentLog) :
       sentLog[i].kind = "timer" /\ Len(sentLog[i].entries) = 1
  /\ accepted # <<>>
  /\ \A i \in 1..Len(accepted) : Occurrences(accepted[i]) >= 1

\* C13: no retry. No entry is passed to send twice; when a send in the loop
\* body returns with a rejected status or a transport failure, nothing is
\* sent again by that step, the batch is empty, batchSize is zero and the
\* loop is back in select, where it accepts and flushes later entries.
C13_NoRetry ==
  /\ [](\A i \in 1..Len(accepted) : Occurrences(accepted[i]) <= 1)
  /\ [][\A l \in Loops :
          (/\ lpc[l] \in {"send_size", "send_timer"}
           /\ lpc'[l] # lpc[l]
           /\ lastOutcome' \in {"rejected", "failure"}) =>
            /\ sentLog' = sentLog
            /\ batch'[l] = <<>>
            /\ batchSize'[l] = 0
            /\ lpc'[l] = "select"]_vars

\* The first send failed; the loop has since accepted another entry and is
\* sending it in a second batch, which does not repeat the first.
C13_Witness ==
  /\ lastOutcome = "failure"
  /\ Len(sentLog) = 2
  /\ inFlight = 1
  /\ sentLog[1].entries # <<>>
  /\ sentLog[2].entries # <<>>
  /\ \A i \in 1..Len(sentLog[2].entries) :
       \A j \in 1..Len(sentLog[1].entries) :
         sentLog[2].entries[i] # sentLog[1].entries[j]

\* C14: a Write on a sink that NewLokiSyncer has built and nobody has started
\* returns without blocking: its entry can be taken although no loop runs.
C14_WriteOnUnstartedSinkReturns ==
  \A w \in Writers :
    (wpc[w] = "blocked" /\ started = 0) => ENABLED WriteProgress(w)

\* C15: once NewLokiSyncer has returned, the label store holds the reserved
\* label rk_logger with the constructor's value v1, whatever WithLokiLabel and
\* AddLabel were called with, and so does every stream of a request.
C15_ReservedLabelKept ==
  cpc = "built" =>
    /\ RkLogger \in DOMAIN labels
    /\ labels[RkLogger] = V1
    /\ \A i \in 1..Len(lastReq.streams) :
         /\ RkLogger \in DOMAIN lastReq.streams[i].stream
         /\ lastReq.streams[i].stream[RkLogger] = V1

\* C16: every key in the label store satisfies the label-name rule, and no
\* stored key or value is the empty string.
C16_StoredLabelsValid ==
  \A k \in DOMAIN labels :
    isValidLabelName(k) /\ Len(k) > 0 /\ Len(labels[k]) > 0

\* The argument of the last applied option of the given name whose argument
\* passes Ok, or the default when there is none.
LastArg(name, Ok(_), default) ==
  LET idx == {i \in 1..Len(applied) :
                applied[i].name = name /\ Ok(applied[i].arg)}
  IN IF idx = {} THEN default
     ELSE applied[CHOOSE i \in idx : \A j \in idx : j <= i].arg

\* No applied option has the given name.
NotGiven(name) == \A i \in 1..Len(applied) : applied[i].name # name

AnyArg(x) == TRUE
NonEmptyArg(x) == Len(x) > 0

\* The option applied by this step, if the step applies one.
Applying(name) ==
  /\ Len(applied') = Len(applied) + 1
  /\ applied'[Len(applied')].name = name

\* C17, as stated: the batch size and the wait are positive, and right after
\* an option with a non-positive batch size (or wait) has been applied that
\* parameter has its default value, 1000 entries (or 3000 ms).
C17_Original ==
  /\ maxBatchSize > 0
  /\ maxBatchWaitMs > 0
  /\ applied # <<>> =>
       LET last == applied[Len(applied)]
       IN /\ (last.name = "WithLokiMaxBatchSize" /\ last.arg <= 0)
               => maxBatchSize = DefaultMaxBatchSize
          /\ (last.name = "WithLokiMaxBatchWaitMs" /\ last.arg <= 0)
               => maxBatchWaitMs = DefaultMaxBatchWaitMs

\* C17, amended: the batch size and the wait are positive; an option with a
\* non-positive batch size (or wait) leaves that parameter as it was; and a
\* parameter no option was given for has its default.
C17_PositiveOrUnchanged ==
  /\ [](maxBatchSize > 0 /\ maxBatchWaitMs > 0)
  /\ [](/\ NotGiven("WithLokiMaxBatchSize")
             => maxBatchSize = DefaultMaxBatchSize
        /\ NotGiven("WithLokiMaxBatchWaitMs")
             => maxBatchWaitMs = DefaultMaxBatchWaitMs)
  /\ [][/\ (Applying("WithLokiMaxBatchSize") /\ applied'[Len(applied')].arg <= 0)
             => maxBatchSize' = maxBatchSize
        /\ (Applying("WithLokiMaxBatchWaitMs") /\ applied'[Len(applied')].arg <= 0)
             => maxBatchWaitMs' = maxBatchWaitMs]_vars

\* A sink was built with WithLokiMaxBatchSize(10), WithLokiMaxBatchSize(0)
\* and kept the size 10.
C17_Witness ==
  /\ cpc = "built"
  /\ Len(applied) = 2
  /\ applied[1].name = "WithLokiMaxBatchSize" /\ applied[1].arg = 10
  /\ applied[2].name = "WithLokiMaxBatchSize" /\ applied[2].arg = 0
  /\ maxBatchSize = 10

\* C18: Sync returns nil, and a step in which Sync returns for the first
\* time, from whatever state of the sink (not started, running, stopped),
\* changes nothing else: not the batch, the labels, the loop or the sends.
C18_SyncIsNoOp ==
  /\ [](syncRet \in {"none", "nil"})
  /\ [][syncRet' # syncRet =>
          /\ syncRet' = "nil"
          /\ UNCHANGED <<otherVars, cfgVars, labels, quitClosed, waitGroup, started,
                         loopVars, writerVars, stopVars, histVars, raced>>]_vars

\* Sync has returned nil on a running sink that holds an unsent entry.
C18_Witness ==
  /\ syncRet = "nil"
  /\ lpc["l1"] = "select"
  /\ batch["l1"] # <<>>
  /\ sentLog = <<>>

\* What the caller configured: the last non-empty address, or the default;
\* the last TLS configuration, username and password.
AddrGiven == LastArg("WithLokiAddr", NonEmptyArg, DefaultAddr)
TlsGiven == LastArg("WithLokiClientTls", AnyArg, "nil")
UsernameGiven == LastArg("WithLokiUsername", AnyArg, <<>>)
PasswordGiven == LastArg("WithLokiPassword", AnyArg, <<>>)

\* C19: the address of a constructed sink is "https://" followed by the
\* configured address when the TLS configuration it was given is not nil,
\* and "http://" followed by the configured address otherwise.
C19_SchemeByTls ==
  cpc = "built" =>
    /\ TlsGiven # "nil" <=> addr = Https \o AddrGiven
    /\ TlsGiven = "nil" <=> addr = Http \o AddrGiven

\* NewLokiSyncer(WithLokiAddr("ut-addr"), WithLokiClientTls(conf)) has
\* returned a sink with the address https://ut-addr.
C19_Witness ==
  /\ cpc = "built"
  /\ AddrGiven = UtAddr
  /\ TlsGiven = "conf"
  /\ addr = Https \o UtAddr

\* C20: the constructed sink has a non-empty basic-auth header exactly when
\* both the username and the password it was given are non-empty, and a
\* request built by send carries an Authorization header exactly then.
C20_AuthHeader ==
  LET both == Len(UsernameGiven) > 0 /\ Len(PasswordGiven) > 0
  IN /\ cpc = "built" => (Len(basicAuthHeader) > 0 <=> both)
     /\ cpc = "opts" => Len(basicAuthHeader) = 0
     /\ Len(lastReq.url) > 0 =>
          ("Authorization" \in DOMAIN lastReq.headers <=> both)

\* A sink given only a username has built a request without Authorization.
C20_Witness ==
  /\ Len(lastReq.url) > 0
  /\ UsernameGiven = UtName
  /\ PasswordGiven = <<>>
  /\ basicAuthHeader = <<>>
  /\ DOMAIN lastReq.headers = {"Content-Type"}

\* C21: a sink built with no options, or only with options that carry an
\* empty address or an empty path, has the address http://localhost:3100,
\* the path /loki/api/v1/push, an empty username, password and auth header,
\* no TLS configuration, a wait of 3000 ms and a batch size of 1000.
C21_Defaults ==
  (/\ cpc = "built"
   /\ \A i \in 1..Len(applied) :
        /\ applied[i].name \in {"WithLokiAddr", "WithLokiPath"}
        /\ applied[i].arg = <<>>) =>
    /\ addr = Http \o DefaultAddr
    /\ path = DefaultPath
    /\ username = <<>>
    /\ password = <<>>
    /\ basicAuthHeader = <<>>
    /\ tlsConfig = "nil"
    /\ maxBatchWaitMs = 3000 * UsPerMs
    /\ maxBatchSize = 1000

\* NewLokiSyncer(WithLokiAddr(""), WithLokiPath("")) has returned a sink
\* with the default address and path.
C21_Witness ==
  /\ cpc = "built"
  /\ Len(applied) = 2
  /\ applied[1].name = "WithLokiAddr" /\ applied[1].arg = <<>>
  /\ applied[2].name = "WithLokiPath" /\ applied[2].arg = <<>>
  /\ addr = Http \o DefaultAddr
  /\ path = DefaultPath

\* ------------------------------------------------------------ initializer
\* const ( JSON FileType = 0; YAML FileType = 1 )
JSON == 0
YAML == 1
\* The file types callers pass: FileType is an int, so any integer.
MaxFileType == 10
FileTypes == (0 - MaxFileType)..MaxFileType

\* names := [...]string{"JSON", "YAML"}: a Go array, indexed from 0.
names == [i \in 0..1 |-> IF i = 0 THEN <<"J", "S", "O", "N">>
                                  ELSE <<"Y", "A", "M", "L">>]
Unknown == <<"U", "N", "K", "N", "O", "W", "N">>
\* What an index expression a[i] does: outside the array it panics.
Panic == <<"p", "a", "n", "i", "c">>
At(a, i) == IF i \in DOMAIN a THEN a[i] ELSE Panic

\* Mutant: only the lower bound is tested.
StringNoUpperBound(fileType) ==
  IF fileType < JSON THEN Unknown ELSE At(names, fileType)

\* func (fileType FileType) String() string
String(fileType) ==
  IF fileType < JSON \/ fileType > YAML
    THEN Unknown
    ELSE At(names, fileType)

\* A []byte: the nil slice, or a slice of bytes.
NilBytes == [isNil |-> TRUE, bytes |-> <<>>]
Slice(bs) == [isNil |-> FALSE, bytes |-> bs]
RawInputs == {NilBytes, Slice(<<>>), Slice(<<"{", "}">>), Slice(Ut)}

\* What the libraries do with a config: whether Unmarshal fails on it into a
\* zap.Config, into a lumberjack.Logger, whether zap.Open fails on its error
\* output paths, and whether config.Build fails on it (an empty encoding, a
\* path that does not open).
Envs == [zapErr : BOOLEAN, lumberErr : BOOLEAN, openErr : BOOLEAN, buildErr : BOOLEAN]

\* The three results of the logger constructors.
Result(logger, config, err) == [logger |-> logger, config |-> config, err |-> err]

\* NewZapLoggerWithConf(config, lumber): a nil config is refused; with a nil
\* lumber the result is that of config.Build; otherwise an error opening the
\* error output is returned with a nil logger.
NewZapLoggerWithConf(config, lumber, env) ==
  IF config = "nil"
    THEN [logger |-> "nil", err |-> "zap config is nil"]
    ELSE IF lumber = "nil"
      THEN IF env.buildErr
             THEN [logger |-> "nil", err |-> "build"]
             ELSE [logger |-> "logger", err |-> "nil"]
      ELSE IF env.openErr
        THEN [logger |-> "nil", err |-> "open"]
        ELSE [logger |-> "logger", err |-> "nil"]

\* Mutant: the results are returned as they are, error or not.
ReturnedAsIs(r) == Result(r.logger, "zapConfig", r.err)

\* if err != nil { return nil, nil, err }; return logger, zapConfig, err
Returned(r) ==
  IF r.err # "nil"
    THEN Result("nil", "nil", r.err)
    ELSE Result(r.logger, "zapConfig", r.err)

\* The branch of one file type: Unmarshal into both configs, then build.
Parsed(env) ==
  IF env.zapErr
    THEN Result("nil", "nil", "unmarshal zap")
    ELSE IF env.lumberErr
      THEN Result("nil", "nil", "unmarshal lumberjack")
      ELSE Returned(NewZapLoggerWithConf("zapConfig", "lumberConfig", env))

\* NewZapLoggerWithBytes(raw, fileType): logger, config and error.
NewZapLoggerWithBytes(raw, fileType, env) ==
  IF raw.isNil
    THEN Result("nil", "nil", "input byte array is nil")
    ELSE IF Len(raw.bytes) = 0
      THEN Result("nil", "nil", "byte array is empty")
      ELSE IF fileType = JSON
        THEN Parsed(env)
        ELSE IF fileType = YAML
          THEN Parsed(env)
          ELSE Returned([logger |-> "nil", err |-> "invalid config file"])

\* The calls of the initializer that are made.
StringCalls == {[fn |-> "String", fileType |-> f] : f \in FileTypes}
BytesCalls ==
  {[fn |-> "NewZapLoggerWithBytes", raw |-> r, fileType |-> f, env |-> e] :
     r \in RawInputs, f \in FileTypes, e \in Envs}

ConfCalls ==
  {[fn |-> "NewZapLoggerWithConf", config |-> c, lumber |-> l, env |-> e] :
     c \in {"nil", "zapConfig"}, l \in {"nil", "lumberConfig"}, e \in Envs}

InitializerInit ==
  /\ NewLokiSyncer /\ Unused /\ NoCopy
  /\ args \in StringCalls \cup BytesCalls \cup ConfCalls
  /\ ret = NoCall

\* fileType.String() is called and returns.
CallString ==
  /\ args.fn = "String"
  /\ ret = NoCall
  /\ ret' = [fn |-> "String", val |-> String(args.fileType)]
  /\ UNCHANGED <<args, copyVars, lastResp, auxVars, cfgVars, labels, quitClosed,
                 waitGroup, runVars>>

\* NewZapLoggerWithBytes(raw, fileType) is called and returns.
CallNewZapLoggerWithBytes ==
  /\ args.fn = "NewZapLoggerWithBytes"
  /\ ret = NoCall
  /\ ret' = [fn |-> "NewZapLoggerWithBytes",
             val |-> NewZapLoggerWithBytes(args.raw, args.fileType, args.env)]
  /\ UNCHANGED <<args, copyVars, lastResp, auxVars, cfgVars, labels, quitClosed,
                 waitGroup, runVars>>

\* NewZapLoggerWithConf(config, lumber) is called and returns.
CallNewZapLoggerWithConf ==
  /\ args.fn = "NewZapLoggerWithConf"
  /\ ret = NoCall
  /\ ret' = [fn |-> "NewZapLoggerWithConf",
             val |-> NewZapLoggerWithConf(args.config, args.lumber, args.env)]
  /\ UNCHANGED <<args, copyVars, lastResp, auxVars, cfgVars, labels, quitClosed,
                 waitGroup, runVars>>

InitializerNext ==
  \/ CallString
  \/ CallNewZapLoggerWithBytes
  \/ CallNewZapLoggerWithConf

InitializerSpec == InitializerInit /\ [][InitializerNext]_vars

\* The input is refused by NewZapLoggerWithBytes: nil or empty bytes, bytes
\* that do not parse in the given format, or a file type that is no format.
Refused(a) ==
  \/ a.raw.isNil
  \/ Len(a.raw.bytes) = 0
  \/ a.fileType \notin {JSON, YAML}
  \/ a.env.zapErr
  \/ a.env.lumberErr

\* C22: NewZapLoggerWithBytes returns a nil logger, a nil config and an error
\* for nil bytes, empty bytes, bytes that fail to parse and a file type that
\* is neither JSON nor YAML, and whenever it returns an error the logger and
\* the config it returns are nil.
C22_ErrorMeansNil ==
  ret.fn = "NewZapLoggerWithBytes" =>
    /\ Refused(args) =>
         ret.val.logger = "nil" /\ ret.val.config = "nil" /\ ret.val.err # "nil"
    /\ ret.val.err # "nil" => ret.val.logger = "nil" /\ ret.val.config = "nil"
    /\ ret.val.err = "nil" => ret.val.logger # "nil" /\ ret.val.config # "nil"

\* A file type that is no format was refused, and so was a config whose
\* error output cannot be opened.
C22_Witness ==
  /\ ret.fn = "NewZapLoggerWithBytes"
  /\ ~args.raw.isNil /\ Len(args.raw.bytes) > 0
  /\ args.fileType = MaxFileType
  /\ ret.val = Result("nil", "nil", "invalid config file")

\* C23: FileType.String returns "JSON" for 0, "YAML" for 1 and "UNKNOWN" for
\* every other integer, and never indexes outside the array of names.
C23_StringOfFileType ==
  ret.fn = "String" =>
    /\ ret.val # Panic
    /\ args.fileType = 0 => ret.val = <<"J", "S", "O", "N">>
    /\ args.fileType = 1 => ret.val = <<"Y", "A", "M", "L">>
    /\ args.fileType \notin {0, 1} =>
         ret.val = <<"U", "N", "K", "N", "O", "W", "N">>

\* String was called on a file type above YAML, and on one below JSON.
C23_Witness ==
  /\ ret.fn = "String"
  /\ args.fileType = 4
  /\ ret.val = Unknown

\* -------------------------------------------------------- outcome of send
\* The running sink with every response that a send of the loop can get.
SendNext ==
  \/ ShortNext
  \/ \E l \in Loops, r \in Responses : SendReturn(l, r)
  \/ \E l \in Loops, r \in Responses : FinalSendReturn(l, r)

SendSpec == Init /\ [][SendNext]_vars

\* A call of send returns in this step.
SendReturns == inFlight' < inFlight

\* C24: send ends as delivered exactly when the request returned without an
\* error and with status 204, as rejected on any other status and as a
\* transport failure on an error; it reports the two other outcomes, and only
\* them, to the local log; and its return changes nothing that a Write caller
\* holds or was returned, every Write having returned no error.
C24_OutcomeOfSend ==
  /\ [](lastOutcome # "none" =>
          /\ lastOutcome = "delivered" <=> (~lastResp.err /\ lastResp.status = 204)
          /\ lastOutcome = "rejected" <=> (~lastResp.err /\ lastResp.status # 204)
          /\ lastOutcome = "failure" <=> lastResp.err
          /\ lastResp.logged # "none" <=> lastOutcome \in {"rejected", "failure"}
          /\ lastOutcome = "rejected" =>
               lastResp.logged = "Unexpected HTTP status code"
          /\ lastOutcome = "failure" =>
               lastResp.logged = "Failed to send an HTTP request")
  /\ [](\A x \in returned : x.ret.err = "nil")
  /\ [][SendReturns => UNCHANGED <<returned, wpc, wentry, issued>>]_vars

\* A send got status 200 and was logged as rejected, and the Write of its
\* entry has returned.
C24_Witness ==
  /\ lastOutcome = "rejected"
  /\ lastResp.status = 200
  /\ lastResp.logged = "Unexpected HTTP status code"
  /\ returned # {}

\* -------------------------------------------------------- newLokiStreamList
\* The longest entry list handed to newLokiStreamList.
MaxStreamLen == 2
\* The entries it is given: one as Write builds it, one with a label of its
\* own, one whose label has the key of a label of the sink.
StreamValues ==
  {LokiValue(<<"1">>, Ut, NoLabels),
   LokiValue(<<"2">>, <<>>, [k \in {App} |-> V2]),
   LokiValue(<<"3">>, Ut, [k \in {RkLogger} |-> V2])}
StreamBatches ==
  UNION {[1..n -> StreamValues] : n \in 0..MaxStreamLen}

\* A sink whose labels change, and one call of its send, which is handed
\* every entry list and serializes it pass by pass.
StreamNext ==
  \/ \E k \in {App, RkLogger}, v \in {V1, V2} : AddLabel(k, v)
  \/ \E b \in StreamBatches : sentLog = <<>> /\ SendStart(b)
  \/ SerializeEntry
  \/ \E r \in ResponseKinds : SendFinish(r)

StreamSpec == Init /\ [][StreamNext]_vars

\* C25: a batch of n entries is serialized as n streams in entry order, each
\* with the one [timestamp, line] pair of its entry and with the labels of
\* the sink, as they are when the entry is serialized, overridden by the
\* entry's own label wherever both have the key; the request carries these
\* streams, and the empty batch is serialized as the empty stream list.
C25_OneStreamPerEntry ==
  [][/\ Len(ser'.streams) > Len(ser.streams) =>
          LET i == Len(ser'.streams)
              e == ser.entries[i]
              st == ser'.streams[i]
          IN /\ i = Len(ser.streams) + 1
             /\ SubSeq(ser'.streams, 1, i - 1) = ser.streams
             /\ st.values = <<e.Values>>
             /\ Len(st.values) = 1 /\ Len(st.values[1]) = 2
             /\ DOMAIN st.stream = DOMAIN labels \cup DOMAIN e.Labels
             /\ \A k \in DOMAIN e.Labels : st.stream[k] = e.Labels[k]
             /\ \A k \in DOMAIN labels \ DOMAIN e.Labels : st.stream[k] = labels[k]
     /\ Len(sentLog') > Len(sentLog) =>
          LET b == sentLog'[Len(sentLog')].entries
              st == lastReq'.streams
          IN /\ st = ser.streams
             /\ Len(st) = Len(b)
             /\ b = <<>> => st = <<>>
             /\ \A i \in 1..Len(b) :
                  /\ st[i].values = <<b[i].Values>>
                  /\ \A k \in DOMAIN b[i].Labels : st[i].stream[k] = b[i].Labels[k]]_vars

\* Two entries were serialized on a sink with the label app: the first
\* stream has the labels of the sink, the second the entry's rk_logger.
C25_Witness ==
  /\ Len(lastReq.streams) = 2
  /\ lastReq.streams[1].values = << <<(<<"1">>), Ut>> >>
  /\ lastReq.streams[1].stream = [k \in {App, RkLogger} |-> IF k = App THEN V2 ELSE V1]
  /\ lastReq.streams[2].values = << <<(<<"3">>), Ut>> >>
  /\ lastReq.streams[2].stream = [k \in {App, RkLogger} |-> V2]

\* The empty batch was serialized.
C25_WitnessEmpty ==
  /\ sentLog # <<>>
  /\ sentLog[Len(sentLog)].entries = <<>>
  /\ lastReq.streams = <<>>

\* C26: in every state of a loop its counter batchSize is the number of
\* entries in its batch, and a send made from the loop body leaves, when it
\* returns, the batch empty and the counter 0.
C26_SizeIsLength ==
  /\ [](\A l \in Loops : batchSize[l] = Len(batch[l]))
  /\ [][\A l \in Loops :
          (lpc[l] \in {"send_size", "send_timer"} /\ lpc'[l] # lpc[l]) =>
            batch'[l] = <<>> /\ batchSize'[l] = 0]_vars

\* The loop is back in its select after a send of two entries, with an
\* empty batch and the counter at 0.
C26_Witness ==
  /\ lpc["l1"] = "select"
  /\ sentLog # <<>> /\ Len(sentLog[1].entries) = 2
  /\ inFlight = 0
  /\ batch["l1"] = <<>> /\ batchSize["l1"] = 0

\* C27: a loop's batch never holds more than maxBatchSize entries, every
\* batch passed to send holds between 1 and maxBatchSize entries, and a loop
\* waiting in its select holds fewer than maxBatchSize entries, whatever the
\* writers do and however long a send takes.
C27_BatchBounded ==
  /\ \A l \in Loops :
       /\ Len(batch[l]) <= maxBatchSize
       /\ lpc[l] = "select" => Len(batch[l]) < maxBatchSize
  /\ \A i \in 1..Len(sentLog) :
       /\ Len(sentLog[i].entries) >= 1
       /\ Len(sentLog[i].entries) <= maxBatchSize

\* A send of a full batch has not returned while a writer is blocked in the
\* next Write.
C27_Witness ==
  /\ maxBatchSize = 2
  /\ lpc["l1"] = "send_size" /\ Len(batch["l1"]) = 2
  /\ \E w \in Writers : wpc[w] = "blocked"

\* -------------------------------------------------------- isValidLabelName
\* The longest name tried, beside the names of the repository's test.
MaxNameLen == 2
\* The characters of the names tried: the first and last of each accepted
\* range, and the characters next to those ranges.
NameChars ==
  {"a", "z", "A", "Z", "0", "9", "_", ":", "-", "/", ";", "@", "[", "grave",
   "{"}
NameInputs ==
  UNION {[1..n -> NameChars] : n \in 0..MaxNameLen} \cup {UtKey, UtKeyValid}

NameInit ==
  /\ NewLokiSyncer /\ Unused /\ NoCopy
  /\ args \in {[fn |-> "isValidLabelName", name |-> n] : n \in NameInputs}
  /\ ret = NoCall

\* isValidLabelName(name) is called and returns.
CallIsValidLabelName ==
  /\ args.fn = "isValidLabelName"
  /\ ret = NoCall
  /\ ret' = [fn |-> "isValidLabelName", val |-> isValidLabelName(args.name)]
  /\ UNCHANGED <<args, copyVars, lastResp, auxVars, cfgVars, labels, quitClosed,
                 waitGroup, runVars>>

NameSpec == NameInit /\ [][CallIsValidLabelName]_vars

\* The character classes [A-Za-z] and [0-9], character by character.
Letters ==
  {"a", "b", "c", "d", "e", "f", "g", "h", "i", "j", "k", "l", "m", "n", "o",
   "p", "q", "r", "s", "t", "u", "v", "w", "x", "y", "z",
   "A", "B", "C", "D", "E", "F", "G", "H", "I", "J", "K", "L", "M", "N", "O",
   "P", "Q", "R", "S", "T", "U", "V", "W", "X", "Y", "Z"}
Digits == {"0", "1", "2", "3", "4", "5", "6", "7", "8", "9"}

\* The name matches [A-Za-z_:][A-Za-z0-9_:]*.
MatchesLabelName(name) ==
  /\ Len(name) > 0
  /\ name[1] \in Letters \cup {"_", ":"}
  /\ \A i \in 2..Len(name) : name[i] \in Letters \cup Digits \cup {"_", ":"}

\* C28: isValidLabelName(key) is true exactly when key is non-empty, starts
\* with a character of [A-Za-z_:] and goes on with characters of
\* [A-Za-z0-9_:]; the empty string and ut-key are invalid, ut_key is valid.
C28_ValidIffMatches ==
  ret.fn = "isValidLabelName" =>
    /\ ret.val <=> MatchesLabelName(args.name)
    /\ args.name = <<>> => ~ret.val
    /\ args.name = UtKey => ~ret.val
    /\ args.name = UtKeyValid => ret.val

\* A name with a digit after a letter was found valid.
C28_Witness ==
  /\ ret.fn = "isValidLabelName"
  /\ args.name = <<"z", "9">>
  /\ ret.val

\* A name that starts with a digit was found invalid, and so was ut-key.
C28_WitnessInvalid ==
  /\ ret.fn = "isValidLabelName"
  /\ args.name \in {<<"0", "a">>, UtKey}
  /\ ~ret.val

\* ------------------------------------------------------------- atomicMap
\* The number of calls made on one store.
MaxStoreOps == 4
StoreKeys == {App, RkLogger}
StoreValues == {V1, V2}

\* return a.m[k]: the zero value "" for a key that is not in the map.
MapGet(m, k) == IF k \in DOMAIN m THEN m[k] ELSE <<>>

\* res := map[string]string{}; for k, v := range a.m { res[k] = v }
MapCopy(m) == [k \in DOMAIN m |-> m[k]]

\* Mutant: Delete empties the map.
MapDeleteAll(m, k) == [x \in {} |-> <<>>]

\* delete(a.m, k)
MapDelete(m, k) == [x \in DOMAIN m \ {k} |-> m[x]]

\* Mutant: Copy returns the store's own map.
CopyIsStore == "store"

\* The map that Copy returns is the one it has just made.
CopyIs == "fresh"

\* The map behind the value that Copy returned.
Held == IF resIs = "store" THEN labels ELSE res

\* A store as newAtomicMap returns it, in a sink at its struct literal.
StoreInit ==
  /\ Literal /\ Unused /\ NoCopy
  /\ args = [fn |-> "atomicMap", calls |-> <<>>]
  /\ ret = NoCall

\* One more call is made on the store, or on the map that Copy returned.
StoreCall(op, k, v) ==
  /\ args.fn = "atomicMap"
  /\ Len(args.calls) < MaxStoreOps
  /\ args' = [args EXCEPT !.calls = Append(@, [op |-> op, k |-> k, v |-> v])]
  /\ UNCHANGED <<lastResp, auxVars, cfgVars, quitClosed, waitGroup, runVars>>

\* a.Set(k, v)
Set(k, v) ==
  /\ StoreCall("Set", k, v)
  /\ labels' = MapSet(labels, k, v)
  /\ UNCHANGED <<ret, copyVars>>

\* a.Get(k)
Get(k) ==
  /\ StoreCall("Get", k, <<>>)
  /\ ret' = [fn |-> "Get", val |-> MapGet(labels, k)]
  /\ UNCHANGED <<labels, copyVars>>

\* a.Copy()
Copy ==
  /\ StoreCall("Copy", <<>>, <<>>)
  /\ res' = MapCopy(labels)
  /\ resIs' = CopyIs
  /\ UNCHANGED <<labels, ret>>

\* a.Delete(k)
Delete(k) ==
  /\ StoreCall("Delete", k, <<>>)
  /\ labels' = MapDelete(labels, k)
  /\ UNCHANGED <<ret, copyVars>>

\* The caller of Copy writes to the map it was returned: res[k] = v.
ResSet(k, v) ==
  /\ resIs # "none"
  /\ StoreCall("res[k] = v", k, v)
  /\ IF resIs = "store"
       THEN labels' = MapSet(labels, k, v) /\ UNCHANGED res
       ELSE res' = MapSet(res, k, v) /\ UNCHANGED labels
  /\ UNCHANGED <<ret, resIs>>

\* The caller of Copy deletes from the map it was returned: delete(res, k).
ResDelete(k) ==
  /\ resIs # "none"
  /\ StoreCall("delete(res, k)", k, <<>>)
  /\ IF resIs = "store"
       THEN labels' = MapDelete(labels, k) /\ UNCHANGED res
       ELSE res' = MapDelete(res, k) /\ UNCHANGED labels
  /\ UNCHANGED <<ret, resIs>>

StoreNext ==
  \/ \E k \in StoreKeys, v \in StoreValues : Set(k, v)
  \/ \E k \in StoreKeys : Get(k)
  \/ Copy
  \/ \E k \in StoreKeys : Delete(k)
  \/ \E k \in StoreKeys, v \in StoreValues : ResSet(k, v)
  \/ \E k \in StoreKeys : ResDelete(k)

StoreSpec == StoreInit /\ [][StoreNext]_vars

\* The call made in this step.
ThisCall == args'.calls[Len(args'.calls)]
\* The calls made so far, and the last of them.
Calls == args.calls
LastCall == Calls[Len(Calls)]

\* C29: the map that Copy returns is a snapshot of its own: a Set or Delete
\* on the store made later does not change it, and a write to it or a delete
\* from it does not change the store.
C29_CopyIsIndependent ==
  [][/\ (resIs # "none" /\ ThisCall.op \in {"Set", "Delete"}) => Held' = Held
     /\ ThisCall.op \in {"res[k] = v", "delete(res, k)"} => labels' = labels
     /\ ThisCall.op = "Copy" => Held' = labels]_vars

\* A key was set in the store after Copy, and the returned map, written to
\* by its caller, has neither the store's new key nor the store its own.
C29_Witness ==
  /\ resIs # "none"
  /\ Len(Calls) = 4
  /\ Calls[1].op = "Set" /\ Calls[2].op = "Copy"
  /\ Calls[3].op = "Delete" /\ Calls[3].k = Calls[1].k
  /\ Calls[4].op = "res[k] = v" /\ Calls[4].k # Calls[1].k
  /\ DOMAIN labels = {}
  /\ DOMAIN Held = StoreKeys

\* The calls on the store among the first n calls that wrote key k.
WritesTo(k, n) ==
  {i \in 1..n : Calls[i].op \in {"Set", "Delete"} /\ Calls[i].k = k}
\* The last of them, or 0.
LastWrite(k, n) ==
  IF WritesTo(k, n) = {} THEN 0
  ELSE CHOOSE i \in WritesTo(k, n) : \A j \in WritesTo(k, n) : j <= i
\* Key k is in the store after n calls: its last write was a Set.
Present(k, n) == LastWrite(k, n) # 0 /\ Calls[LastWrite(k, n)].op = "Set"
\* What Get(k) is to return after n calls.
Expected(k, n) == IF Present(k, n) THEN Calls[LastWrite(k, n)].v ELSE <<>>

\* C30: Get(k) returns the value of the last Set(k, v), a later Set having
\* overwritten an earlier one, and the empty string when the key was never
\* set or was deleted since; a deleted key is in no later Copy; Delete of an
\* absent key changes nothing, and no call changes another key than its own.
C30_StoreIsAMap ==
  /\ [](\A k \in StoreKeys :
          /\ MapGet(labels, k) = Expected(k, Len(Calls))
          /\ k \in DOMAIN labels <=> Present(k, Len(Calls)))
  /\ []((Calls # <<>> /\ LastCall.op = "Get") =>
          ret.val = Expected(LastCall.k, Len(Calls) - 1))
  /\ []((Calls # <<>> /\ LastCall.op = "Copy") =>
          \A k \in StoreKeys :
            /\ k \in DOMAIN Held <=> Present(k, Len(Calls))
            /\ MapGet(Held, k) = Expected(k, Len(Calls)))
  /\ [][/\ (ThisCall.op = "Delete" /\ ThisCall.k \notin DOMAIN labels) =>
             labels' = labels
        /\ ThisCall.op \in {"Set", "Delete"} =>
             \A k \in StoreKeys \ {ThisCall.k} :
               /\ k \in DOMAIN labels' <=> k \in DOMAIN labels
               /\ MapGet(labels', k) = MapGet(labels, k)
        /\ ThisCall.op \in {"Get", "Copy"} => labels' = labels]_vars

\* A key was set, set again and read with the second value, with the other
\* key in the store all along.
C30_Witness ==
  /\ Len(Calls) = 4
  /\ Calls[1] = [op |-> "Set", k |-> RkLogger, v |-> V1]
  /\ Calls[2] = [op |-> "Set", k |-> App, v |-> V1]
  /\ Calls[3] = [op |-> "Set", k |-> App, v |-> V2]
  /\ Calls[4].op = "Get" /\ Calls[4].k = App
  /\ ret.val = V2
  /\ labels = [k \in StoreKeys |-> IF k = App THEN V2 ELSE V1]

\* A key was set and deleted: Get returns the empty string and Copy is empty.
C30_WitnessDeleted ==
  /\ Len(Calls) = 4
  /\ Calls[1].op = "Set" /\ Calls[2].op = "Delete" /\ Calls[2].k = Calls[1].k
  /\ Calls[3].op = "Get" /\ Calls[3].k = Calls[1].k
  /\ Calls[4].op = "Copy"
  /\ ret.val = <<>>
  /\ Held = [k \in {} |-> <<>>]

\* ------------------------------------------ send beside a running AddLabel
\* A send of every entry list, pass by pass, on a sink whose labels are
\* changed by another goroutine.
SerialNext ==
  \/ \E k \in {App}, v \in {V1, V2} : AddLabel(k, v)
  \/ \E b \in StreamBatches : SendStart(b)
  \/ SerializeEntry
  \/ \E r \in ResponseKinds : SendFinish(r)

SerialSpec == Init /\ [][SerialNext]_vars

\* The label sets that a store can hold.
LabelMaps == UNION {[K -> {V1, V2}] : K \in SUBSET {App, RkLogger}}

\* C31: the streams of one batch are built from a single snapshot of the
\* labels of the sink: there is one label set which, overridden by each
\* entry's own labels, gives the labels of every stream of the request, even
\* when AddLabel runs while the batch is serialized.
C31_OneSnapshot ==
  Len(lastReq.streams) > 0 =>
    \E L \in LabelMaps :
      \A i \in 1..Len(lastReq.streams) :
        lastReq.streams[i].stream =
          MergeLabels(L, sentLog[Len(sentLog)].entries[i].Labels)

\* ------------------------------------------------ a sink with a bad target
\* What NewLokiSyncer returns when called with WithLokiPath("ut-path"),
\* WithLokiMaxBatchSize(n) and WithLokiMaxBatchWaitMs(MaxWait ms): the path
\* has no leading slash, so address and path run together into
\* http://localhost:3100ut-path, which has no valid port.
NewLokiSyncerUtPath ==
  /\ maxBatchSize \in 1..MaxBatch
  /\ maxBatchWaitMs = MaxWait * UsPerMs
  /\ addr = Http \o DefaultAddr
  /\ path = UtPath
  /\ username = <<>>
  /\ password = <<>>
  /\ tlsConfig = "nil"
  /\ basicAuthHeader = <<>>
  /\ cpc = "built"
  /\ applied = <<Opt("WithLokiPath", UtPath),
                 Opt("WithLokiMaxBatchSize", maxBatchSize),
                 Opt("WithLokiMaxBatchWaitMs", maxBatchWaitMs)>>
  /\ labels = [k \in {RkLogger} |-> V1]
  /\ quitClosed = FALSE
  /\ waitGroup = 1

PanicInit == NewLokiSyncerUtPath /\ Unused /\ Idle

\* No goroutine of the process has panicked: a panic that nothing recovers
\* ends the process, and no goroutine takes another step.
Running == \A l \in Loops : lpc[l] # "panicked"

\* The steps of that sink while the process runs; no send of it returns.
PanicNext ==
  \/ Running /\ started = 0 /\ Bootstrap(NextLoop)
  \/ \E l \in Loops : Running /\ LoopInit(l)
  \/ \E l \in Loops, w \in Writers : Running /\ LoopRecv(l, w)
  \/ \E l \in Loops : Running /\ LoopTimer(l)
  \/ \E l \in Loops : Running /\ LoopQuit(l)
  \/ \E l \in Loops : Running /\ SendPanics(l)
  \/ Running /\ Tick
  \/ \E w \in Writers : Running /\ WriteReturn(w)
  \/ \E w \in Writers, p \in FullPayloads :
       Running /\ issued < MaxShortWrites /\ WriteCall(w, p)
  \/ Running /\ InterruptCall("s1")
  \/ Running /\ InterruptReturn("s1")

PanicSpec == PanicInit /\ [][PanicNext]_vars

\* C32: when address and path do not form a valid URL, send still returns
\* normally and the loop keeps running: no call of send ends in a panic.
C32_SendReturnsNormally ==
  /\ \A l \in Loops : lpc[l] # "panicked"
  /\ lastOutcome # "panic"

\* ------------------------------------------- Interrupt on an unstarted sink
\* C33: Interrupt returns only if Bootstrap was called: while the sink has not
\* been started the wait-group counter keeps the 1 of the constructor, so an
\* Interrupt that has closed the quit channel stays in Wait.
C33_InterruptNeedsBootstrap ==
  /\ started = 0 => waitGroup = 1
  /\ \A s \in Stoppers :
       /\ ipc[s] = "returned" => started >= 1
       /\ (ipc[s] = "wait" /\ started = 0) => (quitClosed /\ waitGroup > 0)

\* Interrupt has closed the quit channel of a sink that was never started and
\* is blocked in Wait.
C33_Witness ==
  /\ started = 0
  /\ ipc["s1"] = "wait"
  /\ quitClosed
  /\ waitGroup = 1

\* ------------------------------------------------ Interrupt called twice
\* No call of Interrupt has panicked: a panic that nothing recovers ends the
\* process.
NoStopperPanicked == \A s \in Stoppers : ipc[s] # "panicked"

\* A sink started once, written to, and stopped by two callers of Interrupt.
StopNext ==
  \/ NoStopperPanicked /\ started = 0 /\ Bootstrap(NextLoop)
  \/ NoStopperPanicked /\ \E l \in Loops : LoopInit(l)
  \/ NoStopperPanicked /\ \E l \in Loops, w \in Writers : LoopRecv(l, w)
  \/ NoStopperPanicked /\ \E l \in Loops : LoopTimer(l)
  \/ NoStopperPanicked /\ \E l \in Loops, r \in ResponseKinds : SendReturn(l, r)
  \/ NoStopperPanicked /\ \E l \in Loops : LoopQuit(l)
  \/ NoStopperPanicked /\ \E l \in Loops, r \in ResponseKinds : FinalSendReturn(l, r)
  \/ NoStopperPanicked /\ Tick
  \/ NoStopperPanicked /\ \E w \in Writers : WriteReturn(w)
  \/ NoStopperPanicked /\ \E w \in Writers, p \in FullPayloads :
       issued < MaxShortWrites /\ WriteCall(w, p)
  \/ NoStopperPanicked /\ \E s \in Stoppers : InterruptCall(s)
  \/ NoStopperPanicked /\ \E s \in Stoppers : InterruptPanics(s)
  \/ NoStopperPanicked /\ \E s \in Stoppers : InterruptReturn(s)

StopSpec == Init /\ [][StopNext]_vars

\* The calls of Interrupt that got past close(syncer.quitChannel).
Closers == {s \in Stoppers : ipc[s] \in {"wait", "returned"}}

\* C34: Interrupt completes normally at most once per sink: only one call gets
\* past the close of the quit channel, and a call made once the channel is
\* closed ends in a panic and never returns.
C34_InterruptOnce ==
  /\ Cardinality(Closers) <= 1
  /\ Cardinality({s \in Stoppers : ipc[s] = "returned"}) <= 1
  /\ \A s \in Stoppers : ipc[s] = "panicked" => quitClosed

\* One Interrupt has returned and the second one has panicked.
C34_Witness ==
  /\ ipc["s1"] = "returned"
  /\ ipc["s2"] = "panicked"

\* ------------------------------------------------- Bootstrap called twice
\* syncer.waitGroup.Done() panics when it takes the counter below zero
\* ("sync: negative WaitGroup counter"); nothing recovers it.
CounterOk == waitGroup >= 0

\* A sink on which Bootstrap is called twice, written to and stopped once,
\* all within the maximum wait of a batch, so that no timer fires.
TwiceNext ==
  \/ CounterOk /\ Bootstrap(NextLoop)
  \/ CounterOk /\ \E l \in Loops : LoopInit(l)
  \/ CounterOk /\ \E l \in Loops, w \in Writers : LoopRecv(l, w)
  \/ CounterOk /\ \E l \in Loops, r \in ResponseKinds : SendReturn(l, r)
  \/ CounterOk /\ \E l \in Loops : LoopQuit(l)
  \/ CounterOk /\ \E l \in Loops, r \in ResponseKinds : FinalSendReturn(l, r)
  \/ CounterOk /\ \E w \in Writers : WriteReturn(w)
  \/ CounterOk /\ \E w \in Writers, p \in FullPayloads :
       issued < MaxShortWrites /\ WriteCall(w, p)
  \/ CounterOk /\ InterruptCall("s1")
  \/ CounterOk /\ InterruptReturn("s1")

TwiceSpec == Init /\ [][TwiceNext]_vars

\* Whether sequence b holds entry e.
Holds(b, e) == \E i \in 1..Len(b) : b[i] = e

\* The loops that have received entry e: it is in the loop's batch or in a
\* batch which that loop passed to send.
ReceivedBy(e) ==
  {l \in Loops :
     \/ Holds(Unflushed(l), e)
     \/ \E i \in 1..Len(sentLog) : sentLog[i].by = l /\ Holds(sentLog[i].entries, e)}

\* The loops that have run their deferred syncer.waitGroup.Done().
Exited == {l \in Loops : lpc[l] = "done"}

\* C35: with two loops started on one sink, each entry taken from the channel
\* is received by exactly one loop and only once; a loop exits only after
\* Interrupt closed the quit channel, each exit decrements the counter that
\* the constructor set to 1, and once both loops have exited it is below zero.
C35_TwoLoops ==
  /\ \A i \in 1..Len(accepted) :
       /\ Cardinality(ReceivedBy(accepted[i])) = 1
       /\ \A j \in 1..Len(accepted) : accepted[j] = accepted[i] => j = i
  /\ \A l \in Exited : quitClosed
  /\ waitGroup = 1 - Cardinality(Exited)
  /\ Exited = Loops => waitGroup < 0

\* Both loops have received an entry, Interrupt was called, both loops have
\* exited and the counter is below zero.
C35_Witness ==
  /\ started = 2
  /\ \E i, j \in 1..Len(accepted) :
       /\ ReceivedBy(accepted[i]) = {"l1"}
       /\ ReceivedBy(accepted[j]) = {"l2"}
  /\ quitClosed
  /\ Exited = Loops
  /\ waitGroup = -1

\* -------------------------------------------------- entries are immutable
\* What a caller leaves in its slice when it uses it again.
Scribbled == <<"x", "x">>

\* The caller of a Write that has returned overwrites the bytes of the slice
\* it passed.
Mutate(w, q) ==
  /\ wpc[w] = "idle"
  /\ buf[w] # <<>>
  /\ buf[w] # q
  /\ buf' = [buf EXCEPT ![w] = q]
  /\ UNCHANGED <<fnVars, copyVars, lastResp, ser, now, cfgVars, labels, quitClosed,
                 waitGroup, runVars>>

\* The wall clock, time.Now(), moves on.
Clock ==
  /\ now < MaxNow
  /\ now' = now + 1
  /\ UNCHANGED <<fnVars, copyVars, lastResp, ser, buf, cfgVars, labels, quitClosed,
                 waitGroup, runVars>>

\* The sink written to by callers that use their slices again while the
\* clock moves on and a batch waits, within its maximum wait, to be filled
\* or for Interrupt.
EntryNext ==
  \/ started = 0 /\ Bootstrap(NextLoop)
  \/ \E l \in Loops : LoopInit(l)
  \/ \E l \in Loops, w \in Writers : LoopRecv(l, w)
  \/ \E l \in Loops, r \in ResponseKinds : SendReturn(l, r)
  \/ \E l \in Loops : LoopQuit(l)
  \/ \E l \in Loops, r \in ResponseKinds : FinalSendReturn(l, r)
  \/ \E w \in Writers : WriteReturn(w)
  \/ \E w \in Writers, p \in FullPayloads : issued < MaxShortWrites /\ WriteCall(w, p)
  \/ InterruptCall("s1")
  \/ InterruptReturn("s1")
  \/ \E w \in Writers : Mutate(w, Scribbled)
  \/ Clock

EntrySpec == Init /\ [][EntryNext]_vars

\* The entries passed to send so far, as serialized.
SentEntries == {Flatten(sentLog)[i] : i \in 1..Len(Flatten(sentLog))}

\* C36: an entry is immutable once Write created it: every entry passed to
\* send carries the line and the timestamp with which it was received from
\* Write, which are the bytes and the time of the Write call, whatever the
\* caller did to its slice since and however late the flush is.
C36_EntryImmutable ==
  /\ \A e \in SentEntries : \E i \in 1..Len(accepted) : accepted[i] = e
  /\ \A e \in SentEntries : \A r \in returned :
       r.e.seq = e.seq => (e.line = r.e.line /\ e.ts = r.e.ts /\ r.ret.n = Len(e.line))
  /\ \A w \in Writers :
       wpc[w] = "blocked" => (wentry[w].line = buf[w] /\ wentry[w].ts <= now)

\* An entry was sent after its Write returned, after the caller overwrote
\* the slice and after the clock moved on: the entry still has the line and
\* the time of the Write.
C36_Witness ==
  \E e \in SentEntries :
    /\ buf[e.w] = Scribbled
    /\ e.line # Scribbled
    /\ e.ts < now
    /\ \E r \in returned : r.e = e
    /\ wpc[e.w] = "idle"

\* ------------------------------------------- the scheme of the address
\* strings.HasPrefix(s, prefix)
HasPrefix(s, prefix) ==
  Len(s) >= Len(prefix) /\ SubSeq(s, 1, Len(prefix)) = prefix

\* strings.TrimPrefix(s, prefix)
TrimPrefix(s, prefix) ==
  IF HasPrefix(s, prefix) THEN SubSeq(s, Len(prefix) + 1, Len(s)) ELSE s

\* Whether a string begins with one of the two scheme prefixes.
HasScheme(s) == HasPrefix(s, Http) \/ HasPrefix(s, Https)

\* C37: the address of a constructed sink has exactly one scheme prefix: it
\* is the scheme selected by the TLS setting followed by the supplied address
\* with a leading http:// or https:// removed.
C37_OneSchemePrefix ==
  cpc = "built" =>
    /\ addr = Scheme(TlsGiven) \o TrimPrefix(TrimPrefix(AddrGiven, Http), Https)
    /\ ~HasScheme(TrimPrefix(TrimPrefix(addr, Http), Https))

\* --------------------------------------------------- the response bodies
\* C38: every response obtained by send is released before send returns:
\* whenever no send is running, the response that the last send obtained is
\* not left with an open body.
C38_ResponsesClosed ==
  (\A l \in Loops : lpc[l] \notin SendPcs) => lastResp.body # "open"

====
